---- MODULE Spec2Model ----
(***************************************************************************)
(* Issue tracker backend (app/api_server.py, app/models.py): the issue     *)
(* lifecycle handlers, the token/role decorators, the user, machine, issue *)
(* and note tables, and the issue listing.                                 *)
(*                                                                         *)
(* Tables are functions from the integer primary key to the row.  String   *)
(* ids (issue_id, machine_id) are sequences of one-character strings so    *)
(* that formatting and parsing are computed as the code computes them.     *)
(***************************************************************************)
EXTENDS Integers, Sequences, FiniteSets, TLC

\* ------------------------------------------------------------------------
\* Bounds of the model
\* ------------------------------------------------------------------------
MaxIssues == 1
MaxNotes == 2
MaxMachines == 1
MaxTime == 1
\* Issues that earlier runs of the server left in the database, and issues
\* that utils/populate_data.py added to it.
MaxSeeded == 9
MaxPopulated == 2
\* Issues that utils/populate_data.py has put in the database the issue
\* listing is read from.
MaxListed == 3
\* The largest users.id the registrations of user management hand out.
MaxUsers == 4
\* Issues in the database the analytics are computed from, and the hours
\* its timestamps span.
MaxAnalysed == 3
MaxHours == 2
\* Requests served step by step (overlapping one another) in one run.
MaxRequests == 2
\* Socket.IO clients connected at one time, and join_room / leave_room
\* messages one client sends while connected.
MaxClients == 2
MaxRoomMessages == 2

\* ------------------------------------------------------------------------
\* Values
\* ------------------------------------------------------------------------
\* SQL NULL / Python None of an integer or datetime column.
NULL == -1
\* SQL NULL / Python None of a text column, and an absent JSON field.
NoText == "<None>"

valid_services == {"maintenance", "production"}
valid_roles == {"technician", "team_leader", "supervisor", "manager"}
valid_statuses == {"reported", "assigned", "in_progress", "closed"}
valid_urgencies == {"low", "medium", "high"}

\* Request inputs.
\* Bodies of POST /api/auth/register: the production user of
\* utils/create_user.py, a maintenance technician, and two invalid bodies.
RegisterInputs == {
    [matricule_number |-> "PROD001", service |-> "production", role |-> "technician"],
    [matricule_number |-> "MNT001", service |-> "maintenance", role |-> "technician"],
    [matricule_number |-> "QUA001", service |-> "quality", role |-> "technician"],
    [matricule_number |-> "PROD002", service |-> "production", role |-> "production"]}
SupervisorInputs == {
    [matricule_number |-> "SUP001", service |-> "production", role |-> "supervisor"]}
UrgencyInputs == {"high", "low", "urgent", NoText}
StatusInputs == valid_statuses \cup {"done", NoText}
DescriptionInputs == {NoText, "noise"}
NameInputs == {NoText, "press"}
ResolutionInputs == {NoText, "", "fixed"}
ProblemInputs == {NoText, "worn belt"}
\* Bodies of PUT /api/users/<user_id>: records of the keys the body holds.
UserDataInputs == {
    [is_active |-> FALSE],
    [is_active |-> TRUE],
    [service |-> "production", role |-> "boss", is_active |-> FALSE],
    [service |-> "quality", role |-> "supervisor"],
    [role |-> "technician"]}
\* The matricule numbers of POST /api/auth/login.
MatriculeInputs == {NoText, "ADM001", "ADMIN001", "PROD001"}
\* Bodies of PUT /api/users/<user_id> that change the role or the service.
RoleDataInputs == {
    [role |-> "technician"],
    [role |-> "manager"],
    [service |-> "maintenance"],
    [service |-> "production"]}
RoomInputs == {NoText, "maintenance"}
NoteInputs == {NoText, "", "checked"}

VARIABLES
    users,      \* table users:    id -> [user_id, service, role, is_active]
    machines,   \* table machines: id -> [machine_id]
    issues,     \* table issues:   id -> issue row
    notes,      \* table notes:    id -> [text, created_at, issue_id, author_id]
    now,        \* datetime.utcnow()
    events,     \* the socketio.emit calls made so far, oldest first
    resp,       \* the last request that was answered 200/201, and its answer
    clients,    \* Socket.IO clients: sid -> [rooms, received]
    requests    \* handlers in flight: request -> its position and locals

vars == <<users, machines, issues, notes, now, events, resp, clients, requests>>
store == <<users, machines, issues, notes>>

\* ------------------------------------------------------------------------
\* Helpers
\* ------------------------------------------------------------------------
SetMax(S) == CHOOSE m \in S : \A x \in S : x <= m
SetMin(S) == CHOOSE m \in S : \A x \in S : m <= x

\* The primary key the database gives to a new row of a table.
NewRowId(table) == IF DOMAIN table = {} THEN 1 ELSE SetMax(DOMAIN table) + 1

\* db.session.add(row); db.session.commit()
Insert(table, row) == (NewRowId(table) :> row) @@ table

\* db.session.delete(row); db.session.commit()
Delete(table, id) == [k \in DOMAIN table \ {id} |-> table[k]]

Digits == <<"0", "1", "2", "3", "4", "5", "6", "7", "8", "9">>
IsDigit(c) == \E d \in 1..10 : Digits[d] = c
DigitVal(c) == (CHOOSE d \in 1..10 : Digits[d] = c) - 1

\* str(n) for n >= 0, as a sequence of characters.
RECURSIVE Str(_)
Str(n) == IF n < 10 THEN <<Digits[n + 1]>>
          ELSE Str(n \div 10) \o <<Digits[(n % 10) + 1]>>

\* f'{n:03d}'
Pad3(n) == LET s == Str(n) IN
           IF Len(s) >= 3 THEN s
           ELSE IF Len(s) = 2 THEN <<"0">> \o s ELSE <<"0", "0">> \o s

\* int(s) for a sequence of digits.
RECURSIVE ParseInt(_)
ParseInt(s) == IF s = <<>> THEN 0
               ELSE ParseInt(SubSeq(s, 1, Len(s) - 1)) * 10 + DigitVal(s[Len(s)])

\* f'ISS{n:03d}' and f'MACH{n:03d}'
IssueIdFmt(n) == <<"I", "S", "S">> \o Pad3(n)
MachineIdFmt(n) == <<"M", "A", "C", "H">> \o Pad3(n)

\* ------------------------------------------------------------------------
\* Requests and responses
\* ------------------------------------------------------------------------
\* Query string of GET /api/issues.  status is the parameter split at its
\* commas (<<>> when absent); the date parameter is absent.  NoArgs is the
\* request without parameters: page and per_page take their defaults.
NoArgs == [status |-> <<>>, urgency |-> NoText, machine_id |-> <<>>,
           page |-> 1, per_page |-> 10]

\* op: the handler; user: the caller's users.id (NULL for a public route);
\* issue: the issues.id the request acted on (NULL when none); code: the HTTP
\* status; args and items: the query string and the issues.id list of a
\* listing; for an issue detail, items is the notes.id list of its 'notes'.
Response(op, user, issue, code) ==
    [op |-> op, user |-> user, issue |-> issue, code |-> code,
     args |-> NoArgs, items |-> <<>>]

\* An emit that sends the message twice.
Emit_twice(name, issue) ==
    Append(Append(events, [name |-> name, issue |-> issue]),
           [name |-> name, issue |-> issue])

\* socketio.emit(name, payload): the payload describes the issue row `issue`.
Emit(name, issue) == Append(events, [name |-> name, issue |-> issue])

\* An emit to the clients that have joined a room only.
Broadcast_to_rooms(name, issue) ==
    [sid \in DOMAIN clients |->
        IF clients[sid].rooms = {} THEN clients[sid]
        ELSE [clients[sid] EXCEPT
                 !.received = Append(@, [name |-> name, issue |-> issue])]]

\* What socketio.emit(name, payload), called without a room, does to the
\* clients: every connected client of the namespace receives the message.
Broadcast(name, issue) ==
    [sid \in DOMAIN clients |->
        [clients[sid] EXCEPT !.received = Append(@, [name |-> name, issue |-> issue])]]

\* ------------------------------------------------------------------------
\* Decorators
\* ------------------------------------------------------------------------
\* User.query.filter_by(user_id=data['user_id']).first()
UserByUserId(uid) ==
    IF \E id \in DOMAIN users : users[id].user_id = uid
    THEN SetMin({id \in DOMAIN users : users[id].user_id = uid})
    ELSE NULL

\* A gate that does not look at is_active.
token_required_ignores_active(token) ==
    UserByUserId(token) # NULL

\* token_required: TRUE when the token's user exists and is active.
token_required(token) ==
    /\ UserByUserId(token) # NULL
    /\ users[UserByUserId(token)].is_active

\* A gate that looks at the role alone.
role_required_role_only(roles, cu) ==
    users[cu].role \in roles

\* A gate that takes the role from a token issued to the caller and not
\* from the store.
role_required_role_of_token(roles, cu) ==
    \E r \in DOMAIN requests :
        /\ requests[r].op = "login"
        /\ requests[r].user = cu
        /\ ~ (requests[r].token.role \notin roles /\ users[cu].service \notin roles)

\* role_required(*roles): TRUE when the caller is let through.
role_required(roles, cu) ==
    ~ (users[cu].role \notin roles /\ users[cu].service \notin roles)

\* The arguments of the @role_required decorators.
CreateMachineRoles == {"manager", "supervisor", "team_leader"}
DeleteMachineRoles == {"manager"}
CreateIssueRoles == {"production", "supervisor", "team_leader"}
AssignIssueRoles == {"maintenance", "supervisor", "team_leader"}
CloseIssueRoles == {"maintenance", "supervisor", "team_leader"}

\* Tokens in circulation: login issues one to every existing active user.
Tokens == {users[id].user_id : id \in DOMAIN users}

\* init_db: empty tables, then create_default_users.
Init ==
    /\ users = (1 :> [user_id |-> "ADMIN001", service |-> "maintenance",
                      role |-> "manager", is_active |-> TRUE])
    /\ machines = << >>
    /\ issues = << >>
    /\ notes = << >>
    /\ now = 0
    /\ events = << >>
    /\ resp = Response("init_db", NULL, NULL, 200)
    /\ clients = << >>
    /\ requests = << >>

\* The clock advances between requests.
Tick ==
    /\ now < MaxTime
    /\ now' = now + 1
    /\ UNCHANGED <<users, machines, issues, notes, events, resp, clients, requests>>

\* ------------------------------------------------------------------------
\* Users
\* ------------------------------------------------------------------------
\* The HTTP status of POST /api/auth/register.
register_response(matricule, service, role) ==
    IF UserByUserId(matricule) # NULL THEN 409
    ELSE IF service \notin valid_services THEN 400
    ELSE IF role \notin valid_roles THEN 400
    ELSE 201

\* POST /api/auth/register
register(matricule, service, role) ==
    /\ register_response(matricule, service, role) = 201
    /\ users' = Insert(users, [user_id |-> matricule, service |-> service,
                               role |-> role, is_active |-> TRUE])
    /\ resp' = Response("register", NULL, NULL, 201)
    /\ UNCHANGED <<machines, issues, notes, now, events, clients, requests>>

\* ------------------------------------------------------------------------
\* Machines
\* ------------------------------------------------------------------------
\* Machine.query.filter_by(machine_id=machine_id).first()
MachineByMachineId(mid) ==
    IF \E id \in DOMAIN machines : machines[id].machine_id = mid
    THEN SetMin({id \in DOMAIN machines : machines[id].machine_id = mid})
    ELSE NULL

\* ''.join(filter(str.isdigit, s))
RECURSIVE FilterDigits(_)
FilterDigits(s) ==
    IF s = <<>> THEN <<>>
    ELSE IF IsDigit(Head(s)) THEN <<Head(s)>> \o FilterDigits(Tail(s))
    ELSE FilterDigits(Tail(s))

\* The number create_machine computes from the existing machine ids.
MachineScan ==
    LET numbers == {ParseInt(FilterDigits(machines[id].machine_id)) :
                      id \in {k \in DOMAIN machines :
                                FilterDigits(machines[k].machine_id) # <<>>}}
    IN IF DOMAIN machines # {} /\ numbers # {} THEN SetMax(numbers) + 1 ELSE 1

\* while Machine.query.filter_by(machine_id=machine_id).first(): next_num += 1
RECURSIVE MachineRecheck(_)
MachineRecheck(n) ==
    IF MachineByMachineId(MachineIdFmt(n)) # NULL THEN MachineRecheck(n + 1) ELSE n

\* The HTTP status of POST /api/machines.
create_machine_response(token, name) ==
    IF ~ token_required(token) THEN 401
    ELSE IF ~ role_required(CreateMachineRoles, UserByUserId(token)) THEN 403
    ELSE IF name = NoText THEN 400
    ELSE 201

\* POST /api/machines
create_machine(token, name) ==
    /\ create_machine_response(token, name) = 201
    /\ Cardinality(DOMAIN machines) < MaxMachines
    /\ machines' = Insert(machines,
                          [machine_id |-> MachineIdFmt(MachineRecheck(MachineScan))])
    /\ resp' = Response("create_machine", UserByUserId(token), NULL, 201)
    /\ UNCHANGED <<users, issues, notes, now, events, clients, requests>>

\* The HTTP status of DELETE /api/machines/<machine_id>.
delete_machine_response(token, machine_id) ==
    IF ~ token_required(token) THEN 401
    ELSE IF ~ role_required(DeleteMachineRoles, UserByUserId(token)) THEN 403
    ELSE IF MachineByMachineId(machine_id) = NULL THEN 404
    ELSE 200

\* DELETE /api/machines/<machine_id>
delete_machine(token, machine_id) ==
    /\ delete_machine_response(token, machine_id) = 200
    /\ machines' = Delete(machines, MachineByMachineId(machine_id))
    /\ resp' = Response("delete_machine", UserByUserId(token), NULL, 200)
    /\ UNCHANGED <<users, issues, notes, now, events, clients, requests>>

\* ------------------------------------------------------------------------
\* Issues
\* ------------------------------------------------------------------------
\* Issue.query.filter_by(issue_id=issue_id).first()
IssueByIssueId(iid) ==
    IF \E id \in DOMAIN issues : issues[id].issue_id = iid
    THEN SetMin({id \in DOMAIN issues : issues[id].issue_id = iid})
    ELSE NULL

\* issue.issue_id.startswith('ISS')
StartsWithISS(s) == Len(s) >= 3 /\ SubSeq(s, 1, 3) = <<"I", "S", "S">>

\* s.replace('ISS', ''): every non-overlapping occurrence, left to right.
RECURSIVE ReplaceISS(_)
ReplaceISS(s) ==
    IF s = <<>> THEN <<>>
    ELSE IF StartsWithISS(s) THEN ReplaceISS(SubSeq(s, 4, Len(s)))
    ELSE <<Head(s)>> \o ReplaceISS(Tail(s))

\* num_str.isdigit()
AllDigits(s) == s # <<>> /\ \A k \in 1..Len(s) : IsDigit(s[k])

\* An id computed from the number of issues instead of the highest number.
IssueScan_count == IssueIdFmt(Cardinality(DOMAIN issues) + 1)

\* The id create_issue computes from the existing issue ids.
IssueScan ==
    LET iss_numbers == {ParseInt(ReplaceISS(issues[id].issue_id)) :
                          id \in {k \in DOMAIN issues :
                                    /\ StartsWithISS(issues[k].issue_id)
                                    /\ AllDigits(ReplaceISS(issues[k].issue_id))}}
    IN IF iss_numbers # {} THEN IssueIdFmt(SetMax(iss_numbers) + 1)
       ELSE <<"I", "S", "S", "0", "0", "1">>

\* Issue(...) with the column defaults of models.Issue.
NewIssue(issue_id, machine_id, urgency, reporter_id) ==
    [issue_id |-> issue_id, machine_id |-> machine_id, urgency |-> urgency,
     status |-> "reported", reporter_id |-> reporter_id,
     assigned_tech_id |-> NULL, created_at |-> now, accepted_at |-> NULL,
     closed_at |-> NULL, resolution |-> NoText, problem_description |-> NoText]

\* Note(...) with the column defaults of models.Note.
NewNote(text, issue, author_id) ==
    [text |-> text, created_at |-> now, issue_id |-> issue, author_id |-> author_id]

\* The issues created since the server started: each one was announced.
Created == Cardinality({k \in 1..Len(events) : events[k].name = "new_issue"})

\* The HTTP status of POST /api/issues.
create_issue_response(token, machine_id, description, urgency) ==
    IF ~ token_required(token) THEN 401
    ELSE IF ~ role_required(CreateIssueRoles, UserByUserId(token)) THEN 403
    ELSE IF machine_id = <<>> \/ description = NoText \/ urgency = NoText THEN 400
    ELSE IF urgency \notin valid_urgencies THEN 400
    ELSE 201

\* POST /api/issues
create_issue(token, machine_id, description, urgency) ==
    /\ create_issue_response(token, machine_id, description, urgency) = 201
    /\ Created < MaxIssues
    /\ issues' = Insert(issues, NewIssue(IssueScan, machine_id, urgency,
                                         UserByUserId(token)))
    /\ events' = Emit("new_issue", NewRowId(issues))
    /\ clients' = Broadcast("new_issue", NewRowId(issues))
    /\ resp' = Response("create_issue", UserByUserId(token), NewRowId(issues), 201)
    /\ UNCHANGED <<users, machines, notes, now, requests>>

\* Assign without the check of the current status.
assign_issue_response_any_status(token, issue_id) ==
    IF ~ token_required(token) THEN 401
    ELSE IF ~ role_required(AssignIssueRoles, UserByUserId(token)) THEN 403
    ELSE IF IssueByIssueId(issue_id) = NULL THEN 404
    ELSE 200

\* The HTTP status of POST /api/issues/<issue_id>/assign.
assign_issue_response(token, issue_id) ==
    IF ~ token_required(token) THEN 401
    ELSE IF ~ role_required(AssignIssueRoles, UserByUserId(token)) THEN 403
    ELSE IF IssueByIssueId(issue_id) = NULL THEN 404
    ELSE IF issues[IssueByIssueId(issue_id)].status \notin {"reported", "assigned"}
    THEN 400
    ELSE 200

\* Assign that records the technician and leaves the status as it is.
assign_issue_keep_status(token, issue_id) ==
    LET cu == UserByUserId(token)
        i == IssueByIssueId(issue_id) IN
    /\ assign_issue_response(token, issue_id) = 200
    /\ Cardinality(DOMAIN notes) < MaxNotes
    /\ issues' = [issues EXCEPT ![i].assigned_tech_id = cu,
                                ![i].accepted_at = now]
    /\ notes' = Insert(notes, NewNote("Issue accepted and assigned", i, cu))
    /\ events' = Emit("issue_updated", i)
    /\ clients' = Broadcast("issue_updated", i)
    /\ resp' = Response("assign_issue", cu, i, 200)
    /\ UNCHANGED <<users, machines, now, requests>>

\* Assign that stamps accepted_at on the first acceptance only.
assign_issue_first_acceptance(token, issue_id) ==
    LET cu == UserByUserId(token)
        i == IssueByIssueId(issue_id) IN
    /\ assign_issue_response(token, issue_id) = 200
    /\ Cardinality(DOMAIN notes) < MaxNotes
    /\ issues' = [issues EXCEPT ![i].assigned_tech_id = cu,
                                ![i].status = "assigned",
                                ![i].accepted_at = IF @ = NULL THEN now ELSE @]
    /\ notes' = Insert(notes, NewNote("Issue accepted and assigned", i, cu))
    /\ events' = Emit("issue_updated", i)
    /\ clients' = Broadcast("issue_updated", i)
    /\ resp' = Response("assign_issue", cu, i, 200)
    /\ UNCHANGED <<users, machines, now, requests>>

\* An Assign that does not stamp accepted_at.
assign_issue_without_stamp(token, issue_id) ==
    LET cu == UserByUserId(token)
        i == IssueByIssueId(issue_id) IN
    /\ assign_issue_response(token, issue_id) = 200
    /\ Cardinality(DOMAIN notes) < MaxNotes
    /\ issues' = [issues EXCEPT ![i].assigned_tech_id = cu,
                                ![i].status = "assigned"]
    /\ notes' = Insert(notes, NewNote("Issue accepted and assigned", i, cu))
    /\ events' = Emit("issue_updated", i)
    /\ clients' = Broadcast("issue_updated", i)
    /\ resp' = Response("assign_issue", cu, i, 200)
    /\ UNCHANGED <<users, machines, now, requests>>

\* POST /api/issues/<issue_id>/assign
assign_issue(token, issue_id) ==
    LET cu == UserByUserId(token)
        i == IssueByIssueId(issue_id) IN
    /\ assign_issue_response(token, issue_id) = 200
    /\ Cardinality(DOMAIN notes) < MaxNotes
    /\ issues' = [issues EXCEPT ![i].assigned_tech_id = cu,
                                ![i].status = "assigned",
                                ![i].accepted_at = now]
    /\ notes' = Insert(notes, NewNote("Issue accepted and assigned", i, cu))
    /\ events' = Emit("issue_updated", i)
    /\ clients' = Broadcast("issue_updated", i)
    /\ resp' = Response("assign_issue", cu, i, 200)
    /\ UNCHANGED <<users, machines, now, requests>>

\* current_user.role == 'maintenance' and issue.assigned_tech_id != current_user.id
NotOwnAssignment(cu, i) ==
    users[cu].role = "maintenance" /\ issues[i].assigned_tech_id # cu

\* The HTTP status of PATCH /api/issues/<issue_id>/status.
update_issue_status_response(token, issue_id, new_status) ==
    LET cu == UserByUserId(token)
        i == IssueByIssueId(issue_id) IN
    IF ~ token_required(token) THEN 401
    ELSE IF i = NULL THEN 404
    ELSE IF users[cu].role = "production" THEN 403
    ELSE IF NotOwnAssignment(cu, i) THEN 403
    ELSE IF new_status \notin valid_statuses THEN 400
    ELSE 200

\* A status update that clears closed_at when it takes an issue out of closed.
update_issue_status_reopen(token, issue_id, new_status) ==
    LET cu == UserByUserId(token)
        i == IssueByIssueId(issue_id) IN
    /\ update_issue_status_response(token, issue_id, new_status) = 200
    /\ Cardinality(DOMAIN notes) < MaxNotes
    /\ issues' = [issues EXCEPT
           ![i].status = new_status,
           ![i].closed_at = IF new_status # "closed" THEN NULL ELSE @]
    /\ notes' = Insert(notes, NewNote("Status changed to " \o new_status, i, cu))
    /\ events' = Emit("issue_updated", i)
    /\ clients' = Broadcast("issue_updated", i)
    /\ resp' = Response("update_issue_status", cu, i, 200)
    /\ UNCHANGED <<users, machines, now, requests>>

\* A status update that stamps closed_at when it sets the status to closed.
update_issue_status_stamps_closed(token, issue_id, new_status) ==
    LET cu == UserByUserId(token)
        i == IssueByIssueId(issue_id) IN
    /\ update_issue_status_response(token, issue_id, new_status) = 200
    /\ Cardinality(DOMAIN notes) < MaxNotes
    /\ issues' = [issues EXCEPT
           ![i].status = new_status,
           ![i].closed_at = IF new_status = "closed" THEN now ELSE @]
    /\ notes' = Insert(notes, NewNote("Status changed to " \o new_status, i, cu))
    /\ events' = Emit("issue_updated", i)
    /\ clients' = Broadcast("issue_updated", i)
    /\ resp' = Response("update_issue_status", cu, i, 200)
    /\ UNCHANGED <<users, machines, now, requests>>

\* PATCH /api/issues/<issue_id>/status
update_issue_status(token, issue_id, new_status) ==
    LET cu == UserByUserId(token)
        i == IssueByIssueId(issue_id) IN
    /\ update_issue_status_response(token, issue_id, new_status) = 200
    /\ Cardinality(DOMAIN notes) < MaxNotes
    /\ issues' = [issues EXCEPT ![i].status = new_status]
    /\ notes' = Insert(notes, NewNote("Status changed to " \o new_status, i, cu))
    /\ events' = Emit("issue_updated", i)
    /\ clients' = Broadcast("issue_updated", i)
    /\ resp' = Response("update_issue_status", cu, i, 200)
    /\ UNCHANGED <<users, machines, now, requests>>

\* Close without the check that the issue is already closed.
close_issue_response_reclose(token, issue_id, resolution) ==
    LET cu == UserByUserId(token)
        i == IssueByIssueId(issue_id) IN
    IF ~ token_required(token) THEN 401
    ELSE IF ~ role_required(CloseIssueRoles, cu) THEN 403
    ELSE IF i = NULL THEN 404
    ELSE IF NotOwnAssignment(cu, i) THEN 403
    ELSE IF resolution \in {NoText, ""} THEN 400
    ELSE 200

\* Close that checks the resolution for None only, not for the empty string.
close_issue_response_empty_ok(token, issue_id, resolution) ==
    LET cu == UserByUserId(token)
        i == IssueByIssueId(issue_id) IN
    IF ~ token_required(token) THEN 401
    ELSE IF ~ role_required(CloseIssueRoles, cu) THEN 403
    ELSE IF i = NULL THEN 404
    ELSE IF issues[i].status = "closed" THEN 400
    ELSE IF NotOwnAssignment(cu, i) THEN 403
    ELSE IF resolution = NoText THEN 400
    ELSE 200

\* The HTTP status of POST /api/issues/<issue_id>/close.
close_issue_response(token, issue_id, resolution) ==
    LET cu == UserByUserId(token)
        i == IssueByIssueId(issue_id) IN
    IF ~ token_required(token) THEN 401
    ELSE IF ~ role_required(CloseIssueRoles, cu) THEN 403
    ELSE IF i = NULL THEN 404
    ELSE IF issues[i].status = "closed" THEN 400
    ELSE IF NotOwnAssignment(cu, i) THEN 403
    ELSE IF resolution \in {NoText, ""} THEN 400
    ELSE 200

\* POST /api/issues/<issue_id>/close
close_issue(token, issue_id, resolution, problem_description) ==
    LET cu == UserByUserId(token)
        i == IssueByIssueId(issue_id) IN
    /\ close_issue_response(token, issue_id, resolution) = 200
    /\ Cardinality(DOMAIN notes) < MaxNotes
    /\ issues' = [issues EXCEPT
           ![i].status = "closed",
           ![i].closed_at = now,
           ![i].resolution = resolution,
           ![i].problem_description =
               IF problem_description \in {NoText, ""} THEN @
               ELSE problem_description]
    /\ notes' = Insert(notes,
                       NewNote("Issue closed. Resolution: " \o resolution, i, cu))
    /\ events' = Emit("issue_closed", i)
    /\ clients' = Broadcast("issue_closed", i)
    /\ resp' = Response("close_issue", cu, i, 200)
    /\ UNCHANGED <<users, machines, now, requests>>

\* Add note whose check looks at the service, as the listing does.
add_note_response_by_service(token, issue_id, text) ==
    LET cu == UserByUserId(token)
        i == IssueByIssueId(issue_id) IN
    IF ~ token_required(token) THEN 401
    ELSE IF i = NULL THEN 404
    ELSE IF users[cu].service = "production" /\ issues[i].reporter_id # cu THEN 403
    ELSE IF text \in {NoText, ""} THEN 400
    ELSE 201

\* The HTTP status of POST /api/issues/<issue_id>/notes.
add_note_response(token, issue_id, text) ==
    LET cu == UserByUserId(token)
        i == IssueByIssueId(issue_id) IN
    IF ~ token_required(token) THEN 401
    ELSE IF i = NULL THEN 404
    ELSE IF users[cu].role = "production" /\ issues[i].reporter_id # cu THEN 403
    ELSE IF text \in {NoText, ""} THEN 400
    ELSE 201

\* POST /api/issues/<issue_id>/notes
add_note(token, issue_id, text) ==
    LET cu == UserByUserId(token)
        i == IssueByIssueId(issue_id) IN
    /\ add_note_response(token, issue_id, text) = 201
    /\ Cardinality(DOMAIN notes) < MaxNotes
    /\ notes' = Insert(notes, NewNote(text, i, cu))
    /\ events' = Emit("note_added", i)
    /\ clients' = Broadcast("note_added", i)
    /\ resp' = Response("add_note", cu, i, 201)
    /\ UNCHANGED <<users, machines, issues, now, requests>>

\* ------------------------------------------------------------------------
\* Handlers step by step (async_mode='threading': one thread per request)
\* ------------------------------------------------------------------------
\* A handler in flight is requests[r]: op, the handler; pc, its next step
\* ("commit", "emit", "done"); user, the caller; issue, the issues.id it works
\* on (NULL before a new issue is inserted); row, the Issue object added to
\* the session (<< >> when none); changes, the attributes of the loaded issue
\* the handler has set to a new value (what the UPDATE at commit writes);
\* note, the text of the Note added to the session (NoText when none); event,
\* the name it emits; code, its HTTP status once it is done (NULL before).
Request(op, user, issue, row, changes, note, event) ==
    [op |-> op, pc |-> "commit", user |-> user, issue |-> issue, row |-> row,
     changes |-> changes, note |-> note, event |-> event, code |-> NULL]

\* Requests that have not started yet.
Idle == (1..MaxRequests) \ DOMAIN requests

\* A request starts: thread r runs the handler up to its commit.
Start(r, request) ==
    /\ r \in Idle
    /\ requests' = (r :> request) @@ requests

\* The attributes among the assignments asg that differ from what issue i
\* holds: setting an attribute to the value it has is no change to flush.
Dirty(i, asg) ==
    [a \in {x \in DOMAIN asg : asg[x] # issues[i][x]} |-> asg[a]]

\* UPDATE issues SET <changes> WHERE id = ...
Update(row, changes) ==
    [a \in DOMAIN row |-> IF a \in DOMAIN changes THEN changes[a] ELSE row[a]]

\* create_issue up to db.session.add(issue): validation, id scan, Issue(...).
create_issue_scan(r, token, machine_id, description, urgency) ==
    /\ create_issue_response(token, machine_id, description, urgency) = 201
    /\ Start(r, Request("create_issue", UserByUserId(token), NULL,
                        NewIssue(IssueScan, machine_id, urgency, UserByUserId(token)),
                        << >>, NoText, "new_issue"))
    /\ UNCHANGED <<users, machines, issues, notes, now, events, resp, clients>>

\* assign_issue up to db.session.add(note).
assign_issue_stage(r, token, issue_id) ==
    LET cu == UserByUserId(token)
        i == IssueByIssueId(issue_id) IN
    /\ assign_issue_response(token, issue_id) = 200
    /\ Start(r, Request("assign_issue", cu, i, << >>,
                        Dirty(i, [assigned_tech_id |-> cu, status |-> "assigned",
                                  accepted_at |-> now]),
                        "Issue accepted and assigned", "issue_updated"))
    /\ UNCHANGED <<users, machines, issues, notes, now, events, resp, clients>>

\* update_issue_status up to db.session.add(note).
update_issue_status_stage(r, token, issue_id, new_status) ==
    LET cu == UserByUserId(token)
        i == IssueByIssueId(issue_id) IN
    /\ update_issue_status_response(token, issue_id, new_status) = 200
    /\ Start(r, Request("update_issue_status", cu, i, << >>,
                        Dirty(i, [status |-> new_status]),
                        "Status changed to " \o new_status, "issue_updated"))
    /\ UNCHANGED <<users, machines, issues, notes, now, events, resp, clients>>

\* close_issue up to db.session.add(note).
close_issue_stage(r, token, issue_id, resolution, problem_description) ==
    LET cu == UserByUserId(token)
        i == IssueByIssueId(issue_id) IN
    /\ close_issue_response(token, issue_id, resolution) = 200
    /\ Start(r, Request("close_issue", cu, i, << >>,
                        Dirty(i, [status |-> "closed", closed_at |-> now,
                                  resolution |-> resolution,
                                  problem_description |->
                                      IF problem_description \in {NoText, ""}
                                      THEN issues[i].problem_description
                                      ELSE problem_description]),
                        "Issue closed. Resolution: " \o resolution, "issue_closed"))
    /\ UNCHANGED <<users, machines, issues, notes, now, events, resp, clients>>

\* add_note up to db.session.add(note).
add_note_stage(r, token, issue_id, text) ==
    LET cu == UserByUserId(token)
        i == IssueByIssueId(issue_id) IN
    /\ add_note_response(token, issue_id, text) = 201
    /\ Start(r, Request("add_note", cu, i, << >>, << >>, text, "note_added"))
    /\ UNCHANGED <<users, machines, issues, notes, now, events, resp, clients>>

\* A commit that writes the issue and loses the note added to the session.
session_commit_without_note(r) ==
    /\ r \in DOMAIN requests
    /\ requests[r].pc = "commit"
    /\ IF requests[r].op = "create_issue"
       THEN IF IssueByIssueId(requests[r].row.issue_id) # NULL
            THEN /\ requests' = [requests EXCEPT ![r].pc = "done", ![r].code = 500]
                 /\ UNCHANGED <<issues, notes>>
            ELSE /\ issues' = Insert(issues, [requests[r].row EXCEPT !.created_at = now])
                 /\ requests' = [requests EXCEPT ![r].pc = "emit",
                                                 ![r].issue = NewRowId(issues)]
                 /\ UNCHANGED notes
       ELSE /\ issues' = [issues EXCEPT ![requests[r].issue] =
                                           Update(@, requests[r].changes)]
            /\ notes' = notes
            /\ requests' = [requests EXCEPT ![r].pc = "emit"]
    /\ UNCHANGED <<users, machines, now, events, resp, clients>>

\* A commit whose IntegrityError is swallowed: the handler goes on to emit.
session_commit_error_swallowed(r) ==
    /\ r \in DOMAIN requests
    /\ requests[r].pc = "commit"
    /\ IF requests[r].op = "create_issue"
       THEN IF IssueByIssueId(requests[r].row.issue_id) # NULL
            THEN /\ requests' = [requests EXCEPT ![r].pc = "emit"]
                 /\ UNCHANGED <<issues, notes>>
            ELSE /\ issues' = Insert(issues, [requests[r].row EXCEPT !.created_at = now])
                 /\ requests' = [requests EXCEPT ![r].pc = "emit",
                                                 ![r].issue = NewRowId(issues)]
                 /\ UNCHANGED notes
       ELSE /\ issues' = [issues EXCEPT ![requests[r].issue] =
                                           Update(@, requests[r].changes)]
            /\ notes' = Insert(notes, NewNote(requests[r].note, requests[r].issue,
                                              requests[r].user))
            /\ requests' = [requests EXCEPT ![r].pc = "emit"]
    /\ UNCHANGED <<users, machines, now, events, resp, clients>>

\* db.session.commit() of handler r: one transaction holding the INSERT of
\* the new issue, or the UPDATE of the issue and the INSERT of the note.  The
\* INSERT of an issue_id that is taken (unique=True) raises IntegrityError:
\* the error handler rolls back and answers 500.
session_commit(r) ==
    /\ r \in DOMAIN requests
    /\ requests[r].pc = "commit"
    /\ IF requests[r].op = "create_issue"
       THEN IF IssueByIssueId(requests[r].row.issue_id) # NULL
            THEN /\ requests' = [requests EXCEPT ![r].pc = "done", ![r].code = 500]
                 /\ UNCHANGED <<issues, notes>>
            ELSE /\ issues' = Insert(issues, [requests[r].row EXCEPT !.created_at = now])
                 /\ requests' = [requests EXCEPT ![r].pc = "emit",
                                                 ![r].issue = NewRowId(issues)]
                 /\ UNCHANGED notes
       ELSE /\ issues' = [issues EXCEPT ![requests[r].issue] =
                                           Update(@, requests[r].changes)]
            /\ notes' = Insert(notes, NewNote(requests[r].note, requests[r].issue,
                                              requests[r].user))
            /\ requests' = [requests EXCEPT ![r].pc = "emit"]
    /\ UNCHANGED <<users, machines, now, events, resp, clients>>

\* socketio.emit(...) of handler r, and its answer.
socketio_emit(r) ==
    /\ r \in DOMAIN requests
    /\ requests[r].pc = "emit"
    /\ events' = Emit(requests[r].event, requests[r].issue)
    /\ clients' = Broadcast(requests[r].event, requests[r].issue)
    /\ requests' = [requests EXCEPT
           ![r].pc = "done",
           ![r].code = IF requests[r].op \in {"create_issue", "add_note"}
                       THEN 201 ELSE 200]
    /\ resp' = Response(requests[r].op, requests[r].user, requests[r].issue,
                        IF requests[r].op \in {"create_issue", "add_note"}
                        THEN 201 ELSE 200)
    /\ UNCHANGED <<users, machines, issues, notes, now>>


\* create_machine up to next_num: validation and the scan of all machines.
create_machine_scan(r, token, name) ==
    /\ create_machine_response(token, name) = 201
    /\ Start(r, [op |-> "create_machine", pc |-> "recheck",
                 user |-> UserByUserId(token), next_num |-> MachineScan,
                 row |-> [machine_id |-> MachineIdFmt(MachineScan)], code |-> NULL])
    /\ UNCHANGED <<users, machines, issues, notes, now, events, resp, clients>>

\* One evaluation of the condition of
\* while Machine.query.filter_by(machine_id=machine_id).first(): next_num += 1
create_machine_recheck(r) ==
    /\ r \in DOMAIN requests
    /\ requests[r].op = "create_machine"
    /\ requests[r].pc = "recheck"
    /\ IF MachineByMachineId(requests[r].row.machine_id) # NULL
       THEN requests' = [requests EXCEPT
                            ![r].next_num = @ + 1,
                            ![r].row = [machine_id |-> MachineIdFmt(requests[r].next_num + 1)]]
       ELSE requests' = [requests EXCEPT ![r].pc = "commit"]
    /\ UNCHANGED <<users, machines, issues, notes, now, events, resp, clients>>

\* db.session.add(machine); db.session.commit(): Machine.machine_id is
\* unique, so the INSERT of a stored identifier raises IntegrityError and
\* the request is answered 500.
create_machine_commit(r) ==
    /\ r \in DOMAIN requests
    /\ requests[r].op = "create_machine"
    /\ requests[r].pc = "commit"
    /\ IF MachineByMachineId(requests[r].row.machine_id) # NULL
       THEN /\ requests' = [requests EXCEPT ![r].pc = "done", ![r].code = 500]
            /\ UNCHANGED <<machines, resp>>
       ELSE /\ machines' = Insert(machines, requests[r].row)
            /\ requests' = [requests EXCEPT ![r].pc = "done", ![r].code = 201]
            /\ resp' = Response("create_machine", requests[r].user, NULL, 201)
    /\ UNCHANGED <<users, issues, notes, now, events, clients>>

\* ------------------------------------------------------------------------
\* User management step by step
\* ------------------------------------------------------------------------
\* The arguments of the @role_required decorators.
UpdateUserRoles == {"manager"}
DeleteUserRoles == {"manager"}

\* An update of a user that does not validate the role.
update_user_response_any_role(token, user_id, data) ==
    IF ~ token_required(token) THEN 401
    ELSE IF ~ role_required(UpdateUserRoles, UserByUserId(token)) THEN 403
    ELSE IF UserByUserId(user_id) = NULL THEN 404
    ELSE IF "service" \in DOMAIN data /\ data.service \notin valid_services THEN 400
    ELSE 200

\* The HTTP status of PUT /api/users/<user_id>.  The model carries the
\* columns service, role and is_active of a user; the keys name, email and
\* matricule_number of the body are not modelled.
update_user_response(token, user_id, data) ==
    IF ~ token_required(token) THEN 401
    ELSE IF ~ role_required(UpdateUserRoles, UserByUserId(token)) THEN 403
    ELSE IF UserByUserId(user_id) = NULL THEN 404
    ELSE IF "service" \in DOMAIN data /\ data.service \notin valid_services THEN 400
    ELSE IF "role" \in DOMAIN data /\ data.role \notin valid_roles THEN 400
    ELSE 200

\* The attributes update_user has assigned on the loaded user when it
\* returns: it assigns each key of the body in turn and returns at the
\* first one that is not valid.
UserAssignments(data) ==
    LET Given(keys) == [a \in keys \cap DOMAIN data |-> data[a]] IN
    IF "service" \in DOMAIN data /\ data.service \notin valid_services THEN << >>
    ELSE IF "role" \in DOMAIN data /\ data.role \notin valid_roles
    THEN Given({"service"})
    ELSE Given({"service", "role", "is_active"})

\* The attributes among the assignments asg that differ from what user u
\* holds: what the session has to flush for u.
DirtyUser(u, asg) ==
    [a \in {x \in DOMAIN asg : asg[x] # users[u][x]} |-> asg[a]]

\* update_user up to db.session.commit(), or up to the return of an error
\* after the assignments made so far.  A request on users is requests[r]
\* with target, the users.id it works on, and changes, the attributes of
\* the loaded user that the session holds and has not committed.
update_user_stage(r, token, user_id, data) ==
    LET code == update_user_response(token, user_id, data)
        target == UserByUserId(user_id) IN
    /\ code \in {200, 400}
    /\ Start(r, [op |-> "update_user",
                 pc |-> IF code = 200 THEN "commit" ELSE "teardown",
                 user |-> UserByUserId(token), target |-> target,
                 changes |-> DirtyUser(target, UserAssignments(data)),
                 code |-> IF code = 200 THEN NULL ELSE code])
    /\ UNCHANGED <<users, machines, issues, notes, now, events, resp, clients>>

\* db.session.commit() of update_user: the UPDATE of the attributes that
\* changed; it matches no row when the user has been deleted meanwhile
\* (StaleDataError, answered 500).
update_user_commit(r) ==
    /\ r \in DOMAIN requests
    /\ requests[r].op = "update_user"
    /\ requests[r].pc = "commit"
    /\ IF requests[r].target \in DOMAIN users \/ DOMAIN requests[r].changes = {}
       THEN /\ users' = [u \in DOMAIN users |->
                            IF u = requests[r].target
                            THEN Update(users[u], requests[r].changes) ELSE users[u]]
            /\ requests' = [requests EXCEPT ![r].pc = "teardown", ![r].code = 200,
                                            ![r].changes = << >>]
       ELSE /\ requests' = [requests EXCEPT ![r].pc = "teardown", ![r].code = 500]
            /\ UNCHANGED users
    /\ UNCHANGED <<machines, issues, notes, now, events, resp, clients>>

\* The HTTP status of DELETE /api/users/<user_id> before its commit.
delete_user_response(token, user_id) ==
    IF ~ token_required(token) THEN 401
    ELSE IF ~ role_required(DeleteUserRoles, UserByUserId(token)) THEN 403
    ELSE IF UserByUserId(user_id) = NULL THEN 404
    ELSE IF UserByUserId(user_id) = UserByUserId(token) THEN 400
    ELSE 200

\* delete_user up to db.session.commit().
delete_user_stage(r, token, user_id) ==
    /\ delete_user_response(token, user_id) = 200
    /\ Start(r, [op |-> "delete_user", pc |-> "commit",
                 user |-> UserByUserId(token), target |-> UserByUserId(user_id),
                 changes |-> << >>, code |-> NULL])
    /\ UNCHANGED <<users, machines, issues, notes, now, events, resp, clients>>

\* A deletion that takes the notes of the user with it.
delete_user_commit_cascade(r) ==
    LET target == requests[r].target IN
    /\ r \in DOMAIN requests
    /\ requests[r].op = "delete_user"
    /\ requests[r].pc = "commit"
    /\ IF target \notin DOMAIN users
       THEN /\ requests' = [requests EXCEPT ![r].pc = "teardown", ![r].code = 200]
            /\ UNCHANGED <<users, issues, notes>>
       ELSE IF \E i \in DOMAIN issues : issues[i].reporter_id = target
       THEN /\ requests' = [requests EXCEPT ![r].pc = "teardown", ![r].code = 500]
            /\ UNCHANGED <<users, issues, notes>>
       ELSE /\ users' = Delete(users, target)
            /\ issues' = [i \in DOMAIN issues |->
                             IF issues[i].assigned_tech_id = target
                             THEN [issues[i] EXCEPT !.assigned_tech_id = NULL]
                             ELSE issues[i]]
            /\ notes' = [n \in {m \in DOMAIN notes : notes[m].author_id # target}
                            |-> notes[n]]
            /\ requests' = [requests EXCEPT ![r].pc = "teardown", ![r].code = 200]
    /\ UNCHANGED <<machines, now, events, resp, clients>>

\* db.session.delete(user); db.session.commit(): the flush first sets to
\* NULL the foreign keys of the rows that name the user (relationships
\* reported_issues, assigned_issues and notes of models.User, none of which
\* cascades): Issue.reporter_id and Note.author_id are NOT NULL, so a user
\* who reported an issue or wrote a note cannot be deleted (IntegrityError,
\* answered 500); then it deletes the user.  A DELETE that matches no row,
\* the user having been deleted meanwhile, is only warned about.
delete_user_commit(r) ==
    LET target == requests[r].target IN
    /\ r \in DOMAIN requests
    /\ requests[r].op = "delete_user"
    /\ requests[r].pc = "commit"
    /\ IF target \notin DOMAIN users
       THEN /\ requests' = [requests EXCEPT ![r].pc = "teardown", ![r].code = 200]
            /\ UNCHANGED <<users, issues>>
       ELSE IF \/ \E i \in DOMAIN issues : issues[i].reporter_id = target
               \/ \E n \in DOMAIN notes : notes[n].author_id = target
       THEN /\ requests' = [requests EXCEPT ![r].pc = "teardown", ![r].code = 500]
            /\ UNCHANGED <<users, issues>>
       ELSE /\ users' = Delete(users, target)
            /\ issues' = [i \in DOMAIN issues |->
                             IF issues[i].assigned_tech_id = target
                             THEN [issues[i] EXCEPT !.assigned_tech_id = NULL]
                             ELSE issues[i]]
            /\ requests' = [requests EXCEPT ![r].pc = "teardown", ![r].code = 200]
    /\ UNCHANGED <<machines, notes, now, events, resp, clients>>

\* A teardown that commits what the session holds.
shutdown_session_commit_on_teardown(r) ==
    /\ r \in DOMAIN requests
    /\ requests[r].pc = "teardown"
    /\ users' = [u \in DOMAIN users |->
                    IF u = requests[r].target
                    THEN Update(users[u], requests[r].changes) ELSE users[u]]
    /\ requests' = [q \in DOMAIN requests \ {r} |-> requests[q]]
    /\ resp' = IF requests[r].code = 200
               THEN Response(requests[r].op, requests[r].user, NULL, 200) ELSE resp
    /\ UNCHANGED <<machines, issues, notes, now, events, clients>>

\* The end of a request on users: the response is sent and the session is
\* removed (db.session.remove() at the teardown of the application context,
\* db.session.rollback() in the handler of error 500), which drops what the
\* session holds and has not committed.
shutdown_session(r) ==
    /\ r \in DOMAIN requests
    /\ requests[r].pc = "teardown"
    /\ requests' = [q \in DOMAIN requests \ {r} |-> requests[q]]
    /\ resp' = IF requests[r].code = 200
               THEN Response(requests[r].op, requests[r].user, NULL, 200) ELSE resp
    /\ UNCHANGED <<users, machines, issues, notes, now, events, clients>>

\* User.query.filter_by(matricule_number=data['matricule_number']).first():
\* the default user ADMIN001 has the matricule number ADM001, and a
\* registered user has its matricule number for user_id.
UserByMatricule(matricule) ==
    UserByUserId(IF matricule = "ADM001" THEN "ADMIN001"
                 ELSE IF matricule = "ADMIN001" THEN "ADM001" ELSE matricule)

\* The HTTP status of POST /api/auth/login; check_password is the outcome of
\* user.check_password(data['password']).
login_response(matricule, check_password) ==
    IF matricule = NoText THEN 400
    ELSE IF UserByMatricule(matricule) = NULL \/ ~ check_password THEN 401
    ELSE IF ~ users[UserByMatricule(matricule)].is_active THEN 401
    ELSE 200

\* POST /api/auth/login: the answer holds a token that carries the user_id
\* and the role the principal has now.  The answer stays in requests, the
\* token being in use from then on.
login(r, matricule, check_password) ==
    LET user == UserByMatricule(matricule) IN
    /\ login_response(matricule, check_password) = 200
    /\ Start(r, [op |-> "login", pc |-> "done", user |-> user, target |-> NULL,
                 changes |-> << >>, code |-> 200,
                 token |-> [user_id |-> users[user].user_id,
                            role |-> users[user].role]])
    /\ resp' = Response("login", user, NULL, 200)
    /\ UNCHANGED <<users, machines, issues, notes, now, events, clients>>

\* ------------------------------------------------------------------------
\* WebSocket events
\* ------------------------------------------------------------------------
\* The join_room and leave_room messages client sid has been answered.
RoomMessages(sid) ==
    Cardinality({k \in 1..Len(clients[sid].received) :
                    clients[sid].received[k].name \in {"joined_room", "left_room"}})

\* @socketio.on('connect'): the server answers 'connected' to the client.
handle_connect(sid) ==
    /\ sid \in 1..MaxClients
    /\ sid \notin DOMAIN clients
    /\ clients' = (sid :> [rooms |-> {},
                           received |-> <<[name |-> "connected", issue |-> NULL]>>])
                      @@ clients
    /\ UNCHANGED <<users, machines, issues, notes, now, events, resp, requests>>

\* @socketio.on('disconnect'): the client and its rooms are forgotten.
handle_disconnect(sid) ==
    /\ sid \in DOMAIN clients
    /\ clients' = [s \in DOMAIN clients \ {sid} |-> clients[s]]
    /\ UNCHANGED <<users, machines, issues, notes, now, events, resp, requests>>

\* @socketio.on('join_room'): join_room(room); emit('joined_room', ...)
handle_join_room(sid, room) ==
    /\ sid \in DOMAIN clients
    /\ room # NoText
    /\ RoomMessages(sid) < MaxRoomMessages
    /\ clients' = [clients EXCEPT
           ![sid].rooms = @ \cup {room},
           ![sid].received = Append(@, [name |-> "joined_room", issue |-> NULL])]
    /\ UNCHANGED <<users, machines, issues, notes, now, events, resp, requests>>

\* @socketio.on('leave_room'): leave_room(room); emit('left_room', ...)
handle_leave_room(sid, room) ==
    /\ sid \in DOMAIN clients
    /\ room # NoText
    /\ RoomMessages(sid) < MaxRoomMessages
    /\ clients' = [clients EXCEPT
           ![sid].rooms = @ \ {room},
           ![sid].received = Append(@, [name |-> "left_room", issue |-> NULL])]
    /\ UNCHANGED <<users, machines, issues, notes, now, events, resp, requests>>

\* ------------------------------------------------------------------------
\* Issue detail
\* ------------------------------------------------------------------------
\* A single-issue fetch whose check looks at the service, as the listing does.
get_issue_response_by_service(token, issue_id) ==
    LET cu == UserByUserId(token)
        i == IssueByIssueId(issue_id) IN
    IF ~ token_required(token) THEN 401
    ELSE IF i = NULL THEN 404
    ELSE IF users[cu].service = "production" /\ issues[i].reporter_id # cu THEN 403
    ELSE 200

\* The HTTP status of GET /api/issues/<issue_id>.
get_issue_response(token, issue_id) ==
    LET cu == UserByUserId(token)
        i == IssueByIssueId(issue_id) IN
    IF ~ token_required(token) THEN 401
    ELSE IF i = NULL THEN 404
    ELSE IF users[cu].role = "production" /\ issues[i].reporter_id # cu THEN 403
    ELSE 200

\* self.notes: the notes of issue i.
NotesOf(i) == {n \in DOMAIN notes : notes[n].issue_id = i}

\* The notes of issue i, latest first.
NotesOrderBy_desc(i) ==
    {f \in [1..Cardinality(NotesOf(i)) -> NotesOf(i)] :
        /\ \A a, b \in 1..Cardinality(NotesOf(i)) : a # b => f[a] # f[b]
        /\ \A a, b \in 1..Cardinality(NotesOf(i)) :
              a < b => notes[f[a]].created_at >= notes[f[b]].created_at}

\* self.notes.order_by(Note.created_at.asc()): the orders in which the
\* database may return the notes of issue i; notes with equal created_at
\* come in any order.
NotesOrderBy(i) ==
    {f \in [1..Cardinality(NotesOf(i)) -> NotesOf(i)] :
        /\ \A a, b \in 1..Cardinality(NotesOf(i)) : a # b => f[a] # f[b]
        /\ \A a, b \in 1..Cardinality(NotesOf(i)) :
              a < b => notes[f[a]].created_at <= notes[f[b]].created_at}

\* GET /api/issues/<issue_id>
get_issue(token, issue_id) ==
    LET cu == UserByUserId(token)
        i == IssueByIssueId(issue_id) IN
    /\ get_issue_response(token, issue_id) = 200
    /\ \E rows \in NotesOrderBy(i) :
          resp' = [Response("get_issue", cu, i, 200) EXCEPT !.items = rows]
    /\ UNCHANGED <<users, machines, issues, notes, now, events, clients, requests>>

\* ------------------------------------------------------------------------
\* Issue listing
\* ------------------------------------------------------------------------
\* The rows of the issue/machine join that pass the role filter and the
\* status, urgency and machine_id filters.
get_issues_query(cu, args) ==
    {i \in DOMAIN issues :
        /\ \E m \in DOMAIN machines : machines[m].machine_id = issues[i].machine_id
        /\ users[cu].service = "production" => issues[i].reporter_id = cu
        /\ args.status # <<>> =>
              IF Len(args.status) > 1
              THEN \E k \in 1..Len(args.status) : issues[i].status = args.status[k]
              ELSE issues[i].status = args.status[1]
        /\ args.urgency \notin {NoText, ""} => issues[i].urgency = args.urgency
        /\ args.machine_id # <<>> => issues[i].machine_id = args.machine_id}

\* case((urgency == 'high', 1), (urgency == 'medium', 2), (urgency == 'low', 3), else_=4)
urgency_order(urgency) ==
    IF urgency = "high" THEN 1
    ELSE IF urgency = "medium" THEN 2
    ELSE IF urgency = "low" THEN 3
    ELSE 4

\* An order by urgency first and creation time second.
OrderedBefore_urgency_first(a, b) ==
    \/ urgency_order(issues[a].urgency) < urgency_order(issues[b].urgency)
    \/ /\ urgency_order(issues[a].urgency) = urgency_order(issues[b].urgency)
       /\ issues[a].created_at >= issues[b].created_at

\* a may precede b under order_by(Issue.created_at.desc(), urgency_order).
OrderedBefore(a, b) ==
    \/ issues[a].created_at > issues[b].created_at
    \/ /\ issues[a].created_at = issues[b].created_at
       /\ urgency_order(issues[a].urgency) <= urgency_order(issues[b].urgency)

\* The orders in which the database may return the rows S: rows with equal
\* sort keys come in any order.
OrderBy(S) ==
    {f \in [1..Cardinality(S) -> S] :
        /\ \A a, b \in 1..Cardinality(S) : a # b => f[a] # f[b]
        /\ \A a, b \in 1..Cardinality(S) : a < b => OrderedBefore(f[a], f[b])}

\* paginate(page, per_page, error_out=False).items
Paginate(rows, page, per_page) ==
    SubSeq(rows, (page - 1) * per_page + 1,
           IF page * per_page < Len(rows) THEN page * per_page ELSE Len(rows))

\* The HTTP status of GET /api/issues.
get_issues_response(token) ==
    IF ~ token_required(token) THEN 401 ELSE 200

\* GET /api/issues
get_issues(token, args) ==
    /\ get_issues_response(token) = 200
    /\ \E rows \in OrderBy(get_issues_query(UserByUserId(token), args)) :
          resp' = [op |-> "get_issues", user |-> UserByUserId(token),
                   issue |-> NULL, code |-> 200, args |-> args,
                   items |-> Paginate(rows, args.page, args.per_page)]
    /\ UNCHANGED <<users, machines, issues, notes, now, events, clients, requests>>

\* ------------------------------------------------------------------------
\* Analytics (timestamps count hours)
\* ------------------------------------------------------------------------
\* sum(...) of the values of the function f.
RECURSIVE SumFn(_)
SumFn(f) ==
    IF DOMAIN f = {} THEN 0
    ELSE LET x == CHOOSE y \in DOMAIN f : TRUE
         IN f[x] + SumFn([y \in DOMAIN f \ {x} |-> f[y]])

\* round(total / n, 2), in hundredths; Python rounds a tie to the even digit.
Round2(total, n) ==
    LET q == (100 * total) \div n
        r == (100 * total) - q * n
    IN IF 2 * r < n THEN q
       ELSE IF 2 * r > n THEN q + 1
       ELSE IF q % 2 = 0 THEN q ELSE q + 1

\* A dashboard average over every issue with status closed, closed_at or not.
avg_resolution_time_any_closed ==
    LET closed_issues == {i \in DOMAIN issues : issues[i].status = "closed"}
        total_time == SumFn([i \in closed_issues |->
                               IF issues[i].closed_at = NULL THEN 0
                               ELSE issues[i].closed_at - issues[i].created_at])
    IN IF closed_issues # {}
       THEN [total |-> total_time, len |-> Cardinality(closed_issues)]
       ELSE [total |-> 0, len |-> 0]

\* analytics_dashboard: avg_resolution_time, as the pair total_time,
\* len(closed_issues) it is the quotient of (0, 0 when it is the constant 0).
avg_resolution_time ==
    LET closed_issues == {i \in DOMAIN issues :
                             issues[i].status = "closed" /\ issues[i].closed_at # NULL}
        total_time == SumFn([i \in closed_issues |->
                               issues[i].closed_at - issues[i].created_at])
    IN IF closed_issues # {}
       THEN [total |-> total_time, len |-> Cardinality(closed_issues)]
       ELSE [total |-> 0, len |-> 0]

\* round(avg, 2) of such a pair, in hundredths of an hour.
RoundAvg(avg) == IF avg.len = 0 THEN 0 ELSE Round2(avg.total, avg.len)

\* The HTTP status of GET /api/analytics/dashboard.
analytics_dashboard_response(token) ==
    IF ~ token_required(token) THEN 401 ELSE 200

\* GET /api/analytics/dashboard: items holds avg_resolution_time_hours.
analytics_dashboard(token) ==
    /\ analytics_dashboard_response(token) = 200
    /\ resp' = [Response("analytics_dashboard", UserByUserId(token), NULL, 200)
                   EXCEPT !.items = <<RoundAvg(avg_resolution_time)>>]
    /\ UNCHANGED <<users, machines, issues, notes, now, events, clients, requests>>

AnalyticsByTechnicianRoles == {"supervisor", "team_leader", "manager", "maintenance"}

\* A technician's average measured from the creation of the issue.
avg_time_from_created(tech) ==
    LET closed_issues == {i \in DOMAIN issues :
                             /\ issues[i].assigned_tech_id = tech
                             /\ issues[i].status = "closed"
                             /\ issues[i].closed_at # NULL}
        total_time == SumFn([i \in {x \in closed_issues : issues[x].accepted_at # NULL}
                               |-> issues[i].closed_at - issues[i].created_at])
    IN IF closed_issues # {}
       THEN [total |-> total_time, len |-> Cardinality(closed_issues)]
       ELSE [total |-> 0, len |-> 0]

\* analytics_by_technician: avg_time of technician tech, as the pair
\* total_time, len(closed_issues).
avg_time(tech) ==
    LET closed_issues == {i \in DOMAIN issues :
                             /\ issues[i].assigned_tech_id = tech
                             /\ issues[i].status = "closed"
                             /\ issues[i].closed_at # NULL}
        total_time == SumFn([i \in {x \in closed_issues : issues[x].accepted_at # NULL}
                               |-> issues[i].closed_at - issues[i].accepted_at])
    IN IF closed_issues # {}
       THEN [total |-> total_time, len |-> Cardinality(closed_issues)]
       ELSE [total |-> 0, len |-> 0]

\* The rows S of a table as a list by ascending primary key.
RECURSIVE ById(_)
ById(S) == IF S = {} THEN <<>> ELSE <<SetMin(S)>> \o ById(S \ {SetMin(S)})

\* The HTTP status of GET /api/analytics/by-technician.
analytics_by_technician_response(token) ==
    IF ~ token_required(token) THEN 401
    ELSE IF ~ role_required(AnalyticsByTechnicianRoles, UserByUserId(token)) THEN 403
    ELSE 200

\* GET /api/analytics/by-technician: items holds, for every technician, its
\* users.id and its avg_resolution_time_hours.
analytics_by_technician(token) ==
    LET technicians == ById({u \in DOMAIN users :
                                users[u].service = "maintenance" /\ users[u].is_active})
    IN /\ analytics_by_technician_response(token) = 200
       /\ resp' = [Response("analytics_by_technician", UserByUserId(token), NULL, 200)
                      EXCEPT !.items =
                          [k \in 1..Len(technicians) |->
                              [technician |-> technicians[k],
                               avg_resolution_time_hours |->
                                   RoundAvg(avg_time(technicians[k]))]]]
       /\ UNCHANGED <<users, machines, issues, notes, now, events, clients, requests>>

\* ------------------------------------------------------------------------
\* Specifications
\* ------------------------------------------------------------------------
\* Path inputs: the ids the tables can hold, and one more.
IssueIdInputs == {IssueIdFmt(n) : n \in 1..(MaxIssues + 1)}
MachineIdInputs == {MachineIdFmt(n) : n \in 1..(MaxMachines + 1)} \cup {<<>>}

\* The tokens requests may bear: the user_id of every principal that is or
\* may come to be registered, and one of a principal that never is.
TokenInputs ==
    {"ADMIN001", "NOBODY"}
        \cup {d.matricule_number : d \in RegisterInputs \cup SupervisorInputs}

\* The issue lifecycle.
Next ==
    \/ Tick
    \/ \E d \in RegisterInputs : register(d.matricule_number, d.service, d.role)
    \/ \E t \in Tokens, mid \in {<<>>, MachineIdFmt(1)}, d \in DescriptionInputs,
          u \in {"high", "urgent", NoText} : create_issue(t, mid, d, u)
    \/ \E t \in Tokens, iid \in IssueIdInputs : assign_issue(t, iid)
    \/ \E t \in Tokens, iid \in IssueIdInputs, st \in StatusInputs :
          update_issue_status(t, iid, st)
    \/ \E t \in Tokens, iid \in IssueIdInputs, r \in ResolutionInputs,
          pd \in ProblemInputs : close_issue(t, iid, r, pd)
    \/ \E t \in Tokens, iid \in IssueIdInputs, txt \in NoteInputs :
          add_note(t, iid, txt)

Spec == Init /\ [][Next]_vars

\* The issue lifecycle without the generic status update.
NextNoUpdate ==
    \/ Tick
    \/ \E d \in RegisterInputs : register(d.matricule_number, d.service, d.role)
    \/ \E t \in Tokens, mid \in {<<>>, MachineIdFmt(1)}, d \in DescriptionInputs,
          u \in {"high", "urgent", NoText} : create_issue(t, mid, d, u)
    \/ \E t \in Tokens, iid \in IssueIdInputs : assign_issue(t, iid)
    \/ \E t \in Tokens, iid \in IssueIdInputs, r \in ResolutionInputs,
          pd \in ProblemInputs : close_issue(t, iid, r, pd)
    \/ \E t \in Tokens, iid \in IssueIdInputs, txt \in NoteInputs :
          add_note(t, iid, txt)

SpecNoUpdate == Init /\ [][NextNoUpdate]_vars

\* Query strings of the listing requests.
ListingArgs ==
    {NoArgs,
     [NoArgs EXCEPT !.page = 2, !.per_page = 1],
     [NoArgs EXCEPT !.status = <<"reported">>, !.urgency = "high"],
     [NoArgs EXCEPT !.status = <<"assigned", "closed">>],
     [NoArgs EXCEPT !.machine_id = MachineIdFmt(1)]}

\* Machines, issue creation and the issue listing.
NextListing ==
    \/ Tick
    \/ \E d \in RegisterInputs \cup SupervisorInputs :
          register(d.matricule_number, d.service, d.role)
    \/ \E t \in Tokens, name \in NameInputs : create_machine(t, name)
    \/ \E t \in Tokens, mid \in MachineIdInputs : delete_machine(t, mid)
    \/ \E t \in Tokens, mid \in MachineIdInputs, d \in DescriptionInputs,
          u \in UrgencyInputs : create_issue(t, mid, d, u)
    \/ \E t \in Tokens, args \in ListingArgs : get_issues(t, args)

SpecListing == Init /\ [][NextListing]_vars

\* f'TEST{i:03d}'
TestIdFmt(n) == <<"T", "E", "S", "T">> \o Pad3(n)

\* The issues table after k issues were created through the API by the user
\* with id reporter and populate_data.py then added its first j issues.
SeededIssues(k, j, reporter) ==
    [r \in 1..(k + j) |->
        IF r <= k
        THEN NewIssue(IssueIdFmt(r), MachineIdFmt(1), "high", reporter)
        ELSE NewIssue(TestIdFmt(r - k - 1), MachineIdFmt(1), "low", reporter)]

\* The server starts on a database that earlier runs, utils/create_user.py
\* and utils/populate_data.py have filled.
InitSeeded ==
    /\ users = <<[user_id |-> "ADMIN001", service |-> "maintenance",
                  role |-> "manager", is_active |-> TRUE],
                 [user_id |-> "PROD001", service |-> "production",
                  role |-> "technician", is_active |-> TRUE]>>
    /\ machines = <<[machine_id |-> MachineIdFmt(1)]>>
    /\ now = 0
    /\ \E k \in 0..MaxSeeded, j \in 0..MaxPopulated : issues = SeededIssues(k, j, 2)
    /\ notes = << >>
    /\ events = << >>
    /\ resp = Response("init_db", NULL, NULL, 200)
    /\ clients = << >>
    /\ requests = << >>

\* Issue creation on a filled database.
NextSeeded ==
    \/ Tick
    \/ \E t \in Tokens, mid \in MachineIdInputs, d \in DescriptionInputs,
          u \in UrgencyInputs : create_issue(t, mid, d, u)
    \/ \E t \in Tokens, iid \in IssueIdInputs : get_issue(t, iid)

SpecSeeded == InitSeeded /\ [][NextSeeded]_vars

\* The thread that serves the next request: threads are interchangeable, so
\* they are taken in order.
NextThread == IF Idle = {} THEN {} ELSE {SetMin(Idle)}

\* Overlapping requests on the issue routes.
NextConcurrent ==
    \/ Tick
    \/ \E d \in {x \in RegisterInputs : x.service # "maintenance"} :
          register(d.matricule_number, d.service, d.role)
    \/ \E t \in Tokens, d \in DescriptionInputs, u \in {"high", NoText} :
          create_issue(t, MachineIdFmt(1), d, u)
    \/ \E r \in NextThread, t \in Tokens, d \in DescriptionInputs,
          u \in {"high", NoText} : create_issue_scan(r, t, MachineIdFmt(1), d, u)
    \/ \E r \in NextThread, t \in Tokens, iid \in IssueIdInputs :
          assign_issue_stage(r, t, iid)
    \/ \E r \in NextThread, t \in Tokens, iid \in IssueIdInputs,
          st \in {"in_progress", "reported", "done"} :
          update_issue_status_stage(r, t, iid, st)
    \/ \E r \in NextThread, t \in Tokens, iid \in IssueIdInputs,
          res \in {"", "fixed"} : close_issue_stage(r, t, iid, res, NoText)
    \/ \E r \in NextThread, t \in Tokens, iid \in IssueIdInputs,
          txt \in NoteInputs : add_note_stage(r, t, iid, txt)
    \/ \E r \in DOMAIN requests : session_commit(r)
    \/ \E r \in DOMAIN requests : socketio_emit(r)

SpecConcurrent == Init /\ [][NextConcurrent]_vars

\* Overlapping requests on the machine routes.
NextConcurrentMachines ==
    \/ Tick
    \/ \E d \in SupervisorInputs : register(d.matricule_number, d.service, d.role)
    \/ \E r \in NextThread, t \in Tokens, name \in NameInputs \ {NoText} :
          create_machine_scan(r, t, name)
    \/ \E r \in DOMAIN requests : create_machine_recheck(r)
    \/ \E r \in DOMAIN requests : create_machine_commit(r)
    \/ \E t \in Tokens, mid \in MachineIdInputs : delete_machine(t, mid)

SpecConcurrentMachines == Init /\ [][NextConcurrentMachines]_vars

\* The session id of the next client to connect: session ids are
\* interchangeable, so the smallest free one is taken.
NextClient ==
    IF (1..MaxClients) \ DOMAIN clients = {} THEN {}
    ELSE {SetMin((1..MaxClients) \ DOMAIN clients)}

\* Connected observers and the requests that emit to them.
NextObservers ==
    \/ \E d \in {x \in RegisterInputs : x.matricule_number = "PROD001"} :
          register(d.matricule_number, d.service, d.role)
    \/ \E sid \in NextClient : handle_connect(sid)
    \/ \E sid \in 1..MaxClients : handle_disconnect(sid)
    \/ \E sid \in 1..MaxClients, room \in RoomInputs : handle_join_room(sid, room)
    \/ \E sid \in 1..MaxClients, room \in RoomInputs : handle_leave_room(sid, room)
    \/ \E t \in Tokens, d \in DescriptionInputs, u \in {"high", NoText} :
          create_issue(t, MachineIdFmt(1), d, u)
    \/ \E t \in Tokens, iid \in IssueIdInputs : assign_issue(t, iid)
    \/ \E t \in Tokens, iid \in IssueIdInputs, res \in ResolutionInputs :
          close_issue(t, iid, res, NoText)
    \/ \E t \in Tokens, iid \in IssueIdInputs, txt \in NoteInputs :
          add_note(t, iid, txt)

SpecObservers == Init /\ [][NextObservers]_vars

\* Notes, the issue detail and the clients that watch.
NextNotes ==
    \/ Tick
    \/ \E d \in {x \in RegisterInputs : x.matricule_number = "PROD001"} :
          register(d.matricule_number, d.service, d.role)
    \/ \E sid \in NextClient : handle_connect(sid)
    \/ \E t \in Tokens, d \in DescriptionInputs, u \in {"high", NoText} :
          create_issue(t, MachineIdFmt(1), d, u)
    \/ \E t \in Tokens, iid \in IssueIdInputs, txt \in NoteInputs :
          add_note(t, iid, txt)
    \/ \E t \in Tokens, iid \in IssueIdInputs : get_issue(t, iid)

SpecNotes == Init /\ [][NextNotes]_vars

\* The issues populate_data.py adds: ids TEST000, TEST001, ..., one machine,
\* one reporter, a random urgency and a creation time some days back.
PopulatedIssues ==
    UNION {[1..k -> {[NewIssue(<<>>, MachineIdFmt(1), u, 2) EXCEPT !.created_at = c] :
                        u \in valid_urgencies, c \in 0..MaxTime}] : k \in 0..MaxListed}

\* The server starts on a database that utils/create_user.py and
\* utils/populate_data.py have filled.
InitPopulated ==
    /\ users = <<[user_id |-> "ADMIN001", service |-> "maintenance",
                  role |-> "manager", is_active |-> TRUE],
                 [user_id |-> "PROD001", service |-> "production",
                  role |-> "technician", is_active |-> TRUE]>>
    /\ machines = <<[machine_id |-> MachineIdFmt(1)]>>
    /\ now = MaxTime
    /\ \E rows \in PopulatedIssues :
          issues = [r \in DOMAIN rows |-> [rows[r] EXCEPT !.issue_id = TestIdFmt(r - 1)]]
    /\ notes = << >>
    /\ events = << >>
    /\ resp = Response("init_db", NULL, NULL, 200)
    /\ clients = << >>
    /\ requests = << >>

\* The issue listing on a filled database.
NextPopulated ==
    \/ \E t \in Tokens, d \in DescriptionInputs, u \in UrgencyInputs :
          create_issue(t, MachineIdFmt(1), d, u)
    \/ \E t \in Tokens, args \in ListingArgs : get_issues(t, args)

SpecPopulated == InitPopulated /\ [][NextPopulated]_vars

\* The shapes an issue row can have after Assign, Close and generic status
\* updates by the technician with id 3: the assigned technician and
\* accepted_at are set together, and no time is before created_at.
AnalysedRows ==
    {[NewIssue(<<>>, MachineIdFmt(1), "high", 2) EXCEPT
          !.status = st, !.created_at = c, !.assigned_tech_id = tech,
          !.accepted_at = a, !.closed_at = z] :
        st \in {"reported", "closed"}, c \in 0..1, tech \in {NULL, 3},
        a \in {NULL} \cup 0..MaxHours, z \in {NULL} \cup 0..MaxHours}

\* The order of the rows in the table does not matter to the analytics: the
\* tables are taken with their rows in one order.
RowKey(row) ==
    (((IF row.status = "closed" THEN 1 ELSE 0) * 2 + row.created_at) * (MaxHours + 2)
        + row.accepted_at + 1) * (MaxHours + 2) + row.closed_at + 1

AnalysedIssues ==
    UNION {{rows \in [1..k -> {row \in AnalysedRows :
                                  /\ (row.assigned_tech_id = NULL) <=> (row.accepted_at = NULL)
                                  /\ row.accepted_at # NULL => row.accepted_at >= row.created_at
                                  /\ row.closed_at # NULL => row.closed_at >= row.created_at}] :
               \A r \in 1..(k - 1) : RowKey(rows[r]) <= RowKey(rows[r + 1])} :
           k \in 0..MaxAnalysed}

\* The server has run for MaxHours hours: principals have registered (one of
\* them has perhaps been deactivated since) and issues have gone through
\* their lifecycle.
InitAnalytics ==
    /\ \E active \in BOOLEAN :
          users = <<[user_id |-> "ADMIN001", service |-> "maintenance",
                     role |-> "manager", is_active |-> TRUE],
                    [user_id |-> "PROD001", service |-> "production",
                     role |-> "technician", is_active |-> TRUE],
                    [user_id |-> "MNT001", service |-> "maintenance",
                     role |-> "technician", is_active |-> active]>>
    /\ machines = <<[machine_id |-> MachineIdFmt(1)]>>
    /\ now = MaxHours
    /\ \E rows \in AnalysedIssues :
          issues = [r \in DOMAIN rows |-> [rows[r] EXCEPT !.issue_id = IssueIdFmt(r)]]
    /\ notes = << >>
    /\ events = << >>
    /\ resp = Response("init_db", NULL, NULL, 200)
    /\ clients = << >>
    /\ requests = << >>

\* The analytics of a database in use.
NextAnalytics ==
    \/ \E t \in Tokens : analytics_dashboard(t)
    \/ \E t \in Tokens : analytics_by_technician(t)

SpecAnalytics == InitAnalytics /\ [][NextAnalytics]_vars

\* User management beside issues and notes, the requests on users served
\* one at a time.
NextUserThread == IF requests = << >> THEN {1} ELSE {}

NextUsers ==
    \/ \E d \in {x \in RegisterInputs : x.matricule_number \in {"PROD001", "MNT001"}} :
          /\ NewRowId(users) <= MaxUsers
          /\ register(d.matricule_number, d.service, d.role)
    \/ \E t \in Tokens : create_issue(t, MachineIdFmt(1), "noise", "high")
    \/ \E t \in Tokens : assign_issue(t, IssueIdFmt(1))
    \/ \E t \in Tokens : add_note(t, IssueIdFmt(1), "checked")
    \/ \E r \in NextUserThread, t \in Tokens, uid \in Tokens, data \in UserDataInputs :
          update_user_stage(r, t, uid, data)
    \/ \E r \in DOMAIN requests : update_user_commit(r)
    \/ \E r \in NextUserThread, t \in Tokens, uid \in Tokens :
          delete_user_stage(r, t, uid)
    \/ \E r \in DOMAIN requests : delete_user_commit(r)
    \/ \E r \in DOMAIN requests : shutdown_session(r)

SpecUsers == Init /\ [][NextUsers]_vars

\* An issue that is closed, reopened by a generic status update and
\* assigned again, the requests served one after the other: Assign is taken
\* in its steps, the thread of a request starting when no other is in flight.
NextReopen ==
    \/ Tick
    \/ \E d \in {x \in RegisterInputs : x.matricule_number = "PROD001"} :
          register(d.matricule_number, d.service, d.role)
    \/ \E t \in Tokens : create_issue(t, MachineIdFmt(1), "noise", "high")
    \/ \E t \in Tokens, iid \in IssueIdInputs, res \in {"", "fixed"} :
          close_issue(t, iid, res, NoText)
    \/ \E t \in Tokens, iid \in IssueIdInputs, st \in {"reported", "closed", "done"} :
          update_issue_status(t, iid, st)
    \/ \E r \in NextThread, t \in Tokens, iid \in IssueIdInputs :
          /\ \A q \in DOMAIN requests : requests[q].pc = "done"
          /\ assign_issue_stage(r, t, iid)
    \/ \E r \in DOMAIN requests : session_commit(r)
    \/ \E r \in DOMAIN requests : socketio_emit(r)

SpecReopen == Init /\ [][NextReopen]_vars

\* The issue lifecycle beside the deletion of principals.
NextStaff ==
    \/ Tick
    \/ \E d \in {x \in RegisterInputs : x.matricule_number \in {"PROD001", "MNT001"}} :
          /\ NewRowId(users) <= MaxUsers
          /\ register(d.matricule_number, d.service, d.role)
    \/ \E t \in Tokens : create_issue(t, MachineIdFmt(1), "noise", "high")
    \/ \E t \in Tokens : assign_issue(t, IssueIdFmt(1))
    \/ \E t \in Tokens, st \in {"reported", "closed"} :
          update_issue_status(t, IssueIdFmt(1), st)
    \/ \E t \in Tokens, res \in {"", "fixed"} :
          close_issue(t, IssueIdFmt(1), res, NoText)
    \/ \E r \in NextUserThread, t \in Tokens, uid \in Tokens :
          delete_user_stage(r, t, uid)
    \/ \E r \in DOMAIN requests : delete_user_commit(r)
    \/ \E r \in DOMAIN requests : shutdown_session(r)

SpecStaff == Init /\ [][NextStaff]_vars

\* Overlapping requests on one issue and the clients that watch them.
NextConcurrentObservers ==
    \/ \E d \in {x \in RegisterInputs : x.matricule_number = "PROD001"} :
          register(d.matricule_number, d.service, d.role)
    \/ \E sid \in NextClient : handle_connect(sid)
    \/ \E t \in Tokens : create_issue(t, MachineIdFmt(1), "noise", "high")
    \/ \E r \in NextThread, t \in Tokens :
          update_issue_status_stage(r, t, IssueIdFmt(1), "in_progress")
    \/ \E r \in NextThread, t \in Tokens :
          close_issue_stage(r, t, IssueIdFmt(1), "fixed", NoText)
    \/ \E r \in DOMAIN requests : session_commit(r)
    \/ \E r \in DOMAIN requests : socketio_emit(r)

SpecConcurrentObservers == Init /\ [][NextConcurrentObservers]_vars

\* Logins and the changes of role and service that follow them.
NextTokens ==
    \/ \E d \in {x \in RegisterInputs : x.matricule_number = "PROD001"} :
          register(d.matricule_number, d.service, d.role)
    \/ \E r \in NextThread, m \in MatriculeInputs, check_password \in BOOLEAN :
          login(r, m, check_password)
    \/ \E r \in NextThread, t \in Tokens, uid \in Tokens, data \in RoleDataInputs :
          update_user_stage(r, t, uid, data)
    \/ \E r \in DOMAIN requests : update_user_commit(r)
    \/ \E r \in DOMAIN requests : shutdown_session(r)
    \/ \E t \in Tokens : create_issue(t, MachineIdFmt(1), "noise", "high")

SpecTokens == Init /\ [][NextTokens]_vars

\* Issue creation, notes and the issue detail.
NextDetail ==
    \/ Tick
    \/ \E d \in RegisterInputs \cup SupervisorInputs :
          register(d.matricule_number, d.service, d.role)
    \/ \E t \in Tokens, mid \in {<<>>, MachineIdFmt(1)}, d \in DescriptionInputs,
          u \in {"high", "urgent", NoText} : create_issue(t, mid, d, u)
    \/ \E t \in Tokens, iid \in IssueIdInputs, txt \in NoteInputs :
          add_note(t, iid, txt)
    \/ \E t \in Tokens, iid \in IssueIdInputs : get_issue(t, iid)

SpecDetail == Init /\ [][NextDetail]_vars

\* ------------------------------------------------------------------------
\* Properties
\* ------------------------------------------------------------------------
\* The request of token t gets past @token_required and @role_required(roles).
PassesGate(roles, t) ==
    token_required(t) /\ role_required(roles, UserByUserId(t))

\* Issue ids in the path of a request that name a stored issue.
StoredIssueIds == {iid \in IssueIdInputs : IssueByIssueId(iid) # NULL}

\* The status of the issue a path id names.
StatusOf(iid) == issues[IssueByIssueId(iid)].status

\* C1: for every issue whose status is in_progress or closed and every caller
\* the Assign role gate lets through, Assign answers 400 (InvalidTransition)
\* and the handler takes no step: status, assigned technician, accepted_at and
\* the notes stay as they are and nothing is emitted.
C1_AssignInvalidTransition ==
    \A t \in Tokens, iid \in StoredIssueIds :
        (PassesGate(AssignIssueRoles, t) /\ StatusOf(iid) \in {"in_progress", "closed"})
            => /\ assign_issue_response(t, iid) = 400
               /\ ~ ENABLED assign_issue(t, iid)

\* An issue that was assigned and is in_progress, and a caller the Assign gate
\* lets through whose Assign is refused with 400.
C1_Witness ==
    \E t \in Tokens, iid \in StoredIssueIds :
        /\ PassesGate(AssignIssueRoles, t)
        /\ StatusOf(iid) = "in_progress"
        /\ issues[IssueByIssueId(iid)].assigned_tech_id # NULL
        /\ assign_issue_response(t, iid) = 400

\* C2: Close on a closed issue answers 400 (AlreadyClosed) to every caller the
\* Close gate lets through, succeeds for nobody, and takes no step; and in the
\* state a successful Close leaves, the issue is closed, so a second Close
\* that directly follows it fails whoever sends it and whatever it carries.
C2_CloseAlreadyClosed ==
    /\ \A t \in Tokens, iid \in StoredIssueIds, r \in ResolutionInputs :
          StatusOf(iid) = "closed"
              => /\ PassesGate(CloseIssueRoles, t)
                        => close_issue_response(t, iid, r) = 400
                 /\ close_issue_response(t, iid, r) # 200
                 /\ \A pd \in ProblemInputs : ~ ENABLED close_issue(t, iid, r, pd)
    /\ resp.op = "close_issue"
          => /\ issues[resp.issue].status = "closed"
             /\ \A t \in Tokens, r \in ResolutionInputs :
                   close_issue_response(t, issues[resp.issue].issue_id, r) # 200

\* A Close has just succeeded and the same caller's second Close is refused
\* with 400.
C2_Witness ==
    /\ resp.op = "close_issue"
    /\ close_issue_response(users[resp.user].user_id,
                            issues[resp.issue].issue_id, "fixed") = 400

\* C3: Close with a missing or empty resolution answers 400 (ValidationError)
\* for every issue that is not closed and every caller that passes the role
\* gate and the own-assignment check, and takes no step: status, closed_at,
\* resolution, problem_description and notes stay as they are, nothing is
\* emitted.
C3_CloseNeedsResolution ==
    \A t \in Tokens, iid \in StoredIssueIds, r \in {NoText, ""} :
        (/\ PassesGate(CloseIssueRoles, t)
         /\ StatusOf(iid) # "closed"
         /\ ~ NotOwnAssignment(UserByUserId(t), IssueByIssueId(iid)))
            => /\ close_issue_response(t, iid, r) = 400
               /\ \A pd \in ProblemInputs : ~ ENABLED close_issue(t, iid, r, pd)

\* The technician an issue is assigned to is refused a Close without
\* resolution while the same Close with a resolution would be accepted.
C3_Witness ==
    \E t \in Tokens, iid \in StoredIssueIds :
        /\ PassesGate(CloseIssueRoles, t)
        /\ StatusOf(iid) = "assigned"
        /\ issues[IssueByIssueId(iid)].assigned_tech_id = UserByUserId(t)
        /\ close_issue_response(t, iid, "") = 400
        /\ close_issue_response(t, iid, NoText) = 400
        /\ close_issue_response(t, iid, "fixed") = 200

\* Token t belongs to a maintenance technician: service maintenance, role
\* technician.
MaintenanceTechnician(t) ==
    /\ users[UserByUserId(t)].service = "maintenance"
    /\ users[UserByUserId(t)].role = "technician"

\* C4: a Close that is otherwise valid (issue not closed, resolution given),
\* sent by a maintenance technician who is not the issue's assigned
\* technician, answers 403 (Forbidden) and takes no step.
C4_CloseOwnAssignmentOnly ==
    \A t \in Tokens, iid \in StoredIssueIds :
        (/\ token_required(t)
         /\ MaintenanceTechnician(t)
         /\ StatusOf(iid) # "closed"
         /\ issues[IssueByIssueId(iid)].assigned_tech_id # UserByUserId(t))
            => /\ close_issue_response(t, iid, "fixed") = 403
               /\ \A pd \in ProblemInputs : ~ ENABLED close_issue(t, iid, "fixed", pd)

\* C5: a generic status update to a valid status, sent by a production-service
\* principal, answers 403 (Forbidden) for every issue and takes no step: no
\* status change, no audit note, no event.
C5_UpdateForbiddenForProduction ==
    \A t \in Tokens, iid \in StoredIssueIds, st \in valid_statuses :
        (token_required(t) /\ users[UserByUserId(t)].service = "production")
            => /\ update_issue_status_response(t, iid, st) = 403
               /\ ~ ENABLED update_issue_status(t, iid, st)

\* C6: a generic status update to a valid status, sent by a maintenance
\* technician, answers 403 (Forbidden) and takes no step unless the sender is
\* the issue's assigned technician; sent by a supervisor, team leader or
\* manager it answers 200 whoever the issue is assigned to.
C6_UpdateOwnAssignmentOnly ==
    \A t \in Tokens, iid \in StoredIssueIds, st \in valid_statuses :
        token_required(t)
            => /\ (/\ MaintenanceTechnician(t)
                   /\ issues[IssueByIssueId(iid)].assigned_tech_id # UserByUserId(t))
                      => /\ update_issue_status_response(t, iid, st) = 403
                         /\ ~ ENABLED update_issue_status(t, iid, st)
               /\ users[UserByUserId(t)].role \in {"supervisor", "team_leader", "manager"}
                      => update_issue_status_response(t, iid, st) = 200

\* Neither the role nor the service of the principal of token t is in R.
OutsideBoth(R, t) ==
    /\ users[UserByUserId(t)].role \notin R
    /\ users[UserByUserId(t)].service \notin R

\* C7: for each role-gated operation (create machine, delete machine, create
\* issue, assign, close) with allowed set R and each authenticated principal:
\* when role and service are both outside R the request answers 403 and takes
\* no step; when the role or the service is in R the gate does not answer 403
\* (the only other 403 is Close's own-assignment check, after the gate).
C7_RoleGate ==
    \A t \in Tokens : token_required(t) =>
        /\ \A name \in NameInputs :
              /\ create_machine_response(t, name) = 403
                    <=> OutsideBoth(CreateMachineRoles, t)
              /\ OutsideBoth(CreateMachineRoles, t) => ~ ENABLED create_machine(t, name)
        /\ \A mid \in MachineIdInputs :
              /\ delete_machine_response(t, mid) = 403
                    <=> OutsideBoth(DeleteMachineRoles, t)
              /\ OutsideBoth(DeleteMachineRoles, t) => ~ ENABLED delete_machine(t, mid)
        /\ \A mid \in MachineIdInputs, d \in DescriptionInputs, u \in UrgencyInputs :
              /\ create_issue_response(t, mid, d, u) = 403
                    <=> OutsideBoth(CreateIssueRoles, t)
              /\ OutsideBoth(CreateIssueRoles, t) => ~ ENABLED create_issue(t, mid, d, u)
        /\ \A iid \in IssueIdInputs :
              /\ assign_issue_response(t, iid) = 403
                    <=> OutsideBoth(AssignIssueRoles, t)
              /\ OutsideBoth(AssignIssueRoles, t) => ~ ENABLED assign_issue(t, iid)
        /\ \A iid \in IssueIdInputs, r \in ResolutionInputs :
              /\ OutsideBoth(CloseIssueRoles, t)
                    => /\ close_issue_response(t, iid, r) = 403
                       /\ \A pd \in ProblemInputs : ~ ENABLED close_issue(t, iid, r, pd)
              /\ (~ OutsideBoth(CloseIssueRoles, t) /\ close_issue_response(t, iid, r) = 403)
                    => /\ IssueByIssueId(iid) # NULL
                       /\ NotOwnAssignment(UserByUserId(t), IssueByIssueId(iid))

\* A machine was created (by a caller let through on the role alone, no
\* service being in that gate's set), an issue has just been created by a
\* caller let through on the service alone, and another principal is refused
\* the same Create with 403.
C7_Witness ==
    /\ machines # << >>
    /\ resp.op = "create_issue"
    /\ users[resp.user].role \notin CreateIssueRoles
    /\ users[resp.user].service \in CreateIssueRoles
    /\ \E t \in Tokens :
          /\ OutsideBoth(CreateIssueRoles, t)
          /\ create_issue_response(t, MachineIdFmt(1), "noise", "high") = 403

\* C8: in every state reached by Create, Assign, Close and Add note (no
\* generic status update), every issue whose assigned technician is set has
\* status assigned, in_progress or closed.
C8_AssignedHasStatus ==
    \A i \in DOMAIN issues :
        issues[i].assigned_tech_id # NULL
            => issues[i].status \in {"assigned", "in_progress", "closed"}

\* An issue that was assigned and then closed.
C8_Witness ==
    \E i \in DOMAIN issues :
        /\ issues[i].assigned_tech_id # NULL
        /\ issues[i].accepted_at # NULL
        /\ issues[i].status = "closed"

\* The fields of issue i other than its status that a closed issue keeps.
ClosedFields(i) ==
    <<issues[i].assigned_tech_id, issues[i].accepted_at, issues[i].closed_at,
      issues[i].resolution, issues[i].problem_description>>

\* C9 as stated: no step changes the status, assigned technician,
\* accepted_at, closed_at, resolution or problem_description of an issue
\* whose status is closed.
C9_ImmutableOnceClosed ==
    [][\A i \in DOMAIN issues :
          issues[i].status = "closed"
              => /\ issues'[i].status = "closed"
                 /\ ClosedFields(i)' = ClosedFields(i)]_vars

\* C9, amended: no step changes the assigned technician, accepted_at,
\* closed_at, resolution or problem_description of an issue whose status is
\* closed, and the only step that changes its status is a generic status
\* update of that issue.
C9_ClosedKeepsAllButStatus ==
    [][\A i \in DOMAIN issues :
          issues[i].status = "closed"
              => /\ ClosedFields(i)' = ClosedFields(i)
                 /\ issues'[i].status # "closed"
                       => /\ events' # events
                          /\ resp'.op = "update_issue_status"
                          /\ resp'.issue = i]_vars

\* A generic status update has just reopened an issue that Close had closed:
\* its closed_at and resolution are still set.
C9_Witness ==
    /\ resp.op = "update_issue_status"
    /\ issues[resp.issue].status # "closed"
    /\ issues[resp.issue].closed_at # NULL
    /\ issues[resp.issue].resolution = "fixed"

\* C10: a listing without filters answers a production-service principal with
\* issues that principal reported only, and a maintenance-service principal
\* with every issue in the store.
C10_ListingVisibility ==
    (resp.op = "get_issues" /\ resp.args = NoArgs)
        => LET shown == {resp.items[k] : k \in 1..Len(resp.items)} IN
           /\ users[resp.user].service = "production"
                 => \A i \in shown : issues[i].reporter_id = resp.user
           /\ users[resp.user].service = "maintenance"
                 => shown = DOMAIN issues

\* C11: for every authenticated caller and stored issue, the single-issue
\* fetch answers 403 exactly when the caller's role is 'production' and the
\* caller is not the reporter, and 200 otherwise; a production-service caller
\* who did not report the issue (role technician, supervisor, ...) gets 200
\* and the fetch is served.
C11_DetailCheckOnRole ==
    \A t \in Tokens, iid \in StoredIssueIds :
        token_required(t) =>
            LET p == users[UserByUserId(t)]
                reporter == issues[IssueByIssueId(iid)].reporter_id = UserByUserId(t)
                denied == p.role = "production" /\ ~ reporter
            IN /\ get_issue_response(t, iid) = 403 <=> denied
               /\ get_issue_response(t, iid) = 200 <=> ~ denied
               /\ (p.service = "production" /\ p.role # "production" /\ ~ reporter)
                     => ENABLED get_issue(t, iid)

\* A production-service principal has just been served the detail of an
\* issue that another principal reported.
C11_Witness ==
    /\ resp.op = "get_issue"
    /\ resp.code = 200
    /\ users[resp.user].service = "production"
    /\ issues[resp.issue].reporter_id # resp.user

\* The numbers of the stored issue ids of the form ISS<digits>.
IssNumbers ==
    {ParseInt(SubSeq(issues[i].issue_id, 4, Len(issues[i].issue_id))) :
        i \in {k \in DOMAIN issues :
                 /\ Len(issues[k].issue_id) > 3
                 /\ SubSeq(issues[k].issue_id, 1, 3) = <<"I", "S", "S">>
                 /\ \A c \in 4..Len(issues[k].issue_id) : IsDigit(issues[k].issue_id[c])}}

\* C12: every Create step gives the new issue the id 'ISS' followed by the
\* highest number among the stored ids of the form ISS<digits>, plus one,
\* padded with zeros to three digits, and 'ISS001' when there is no such id;
\* other ids (TEST000, ...) are ignored.  With ISS001..ISS007 stored the new
\* id is ISS008, with ISS001..ISS009 it is ISS010.
C12_SequentialIssueId ==
    [][DOMAIN issues' # DOMAIN issues =>
          LET new == issues'[CHOOSE i \in DOMAIN issues' : i \notin DOMAIN issues].issue_id
              top == IF IssNumbers = {} THEN 0 ELSE SetMax(IssNumbers)
          IN /\ new = <<"I", "S", "S">> \o
                      (IF top + 1 < 10 THEN <<"0", "0">> \o Str(top + 1)
                       ELSE IF top + 1 < 100 THEN <<"0">> \o Str(top + 1)
                       ELSE Str(top + 1))
             /\ IssNumbers = {} => new = <<"I", "S", "S", "0", "0", "1">>
             /\ IssNumbers = 1..7 => new = <<"I", "S", "S", "0", "0", "8">>
             /\ IssNumbers = 1..9 => new = <<"I", "S", "S", "0", "1", "0">>]_vars

\* ISS008 has just been created in a store that held ISS001..ISS007 and an
\* id of another format.
C12_Witness ==
    /\ resp.op = "create_issue"
    /\ issues[resp.issue].issue_id = <<"I", "S", "S", "0", "0", "8">>
    /\ IssNumbers = 1..8
    /\ \E i \in DOMAIN issues : issues[i].issue_id = <<"T", "E", "S", "T", "0", "0", "0">>

\* C13: overlapping Create requests are all served: none ends with an error
\* because the id it computed is taken, and the issues they create have
\* distinct ids.
C13_ConcurrentCreateNoCollision ==
    /\ \A r \in DOMAIN requests :
          (requests[r].op = "create_issue" /\ requests[r].pc = "done")
              => requests[r].code = 201
    /\ \A i, j \in DOMAIN issues :
          i # j => issues[i].issue_id # issues[j].issue_id

\* The texts of the audit notes of Assign, generic status update and Close.
AuditTexts ==
    {"Issue accepted and assigned"}
        \cup {"Status changed to " \o st : st \in valid_statuses}
        \cup {"Issue closed. Resolution: " \o res : res \in ResolutionInputs \ {NoText, ""}}

\* The notes of issue i a step inserts.
AddedNotes(i) == {n \in DOMAIN notes' \ DOMAIN notes : notes'[n].issue_id = i}

\* C16: the committed store never holds half of a lifecycle mutation.  Every
\* step that changes a stored issue inserts, in the same step, exactly one
\* note of that issue, an audit note; and every step that inserts an audit
\* note is the commit of one Assign, status update or Close, which writes in
\* the same step every attribute that request has changed.
C16_MutationAndNoteTogether ==
    [][\A i \in DOMAIN issues :
          /\ issues'[i] # issues[i]
                => /\ Cardinality(AddedNotes(i)) = 1
                   /\ \A n \in AddedNotes(i) : notes'[n].text \in AuditTexts
          /\ \A n \in AddedNotes(i) :
                notes'[n].text \in AuditTexts
                    => \E r \in DOMAIN requests :
                          /\ requests[r].pc = "commit" /\ requests'[r].pc = "emit"
                          /\ requests[r].op \in {"assign_issue", "update_issue_status",
                                                 "close_issue"}
                          /\ requests[r].issue = i
                          /\ requests[r].note = notes'[n].text
                          /\ notes'[n].author_id = requests[r].user
                          /\ \A a \in DOMAIN requests[r].changes :
                                issues'[i][a] = requests[r].changes[a]]_vars

\* Two overlapping requests on one issue have both committed: the issue is
\* closed with its resolution, and holds the audit notes of an Assign and of
\* a Close, while one of the two requests has not emitted its event yet.
C16_Witness ==
    \E i \in DOMAIN issues :
        /\ issues[i].status = "closed"
        /\ issues[i].resolution = "fixed"
        /\ issues[i].assigned_tech_id # NULL
        /\ \E n, m \in NotesOf(i) :
              /\ notes[n].text = "Issue accepted and assigned"
              /\ notes[m].text = "Issue closed. Resolution: fixed"
        /\ \E r \in DOMAIN requests : requests[r].pc = "emit"
        /\ \A r \in 1..2 : r \in DOMAIN requests /\ requests[r].issue = i

\* The events of one name about issue i emitted so far.
EventsOf(names, i) ==
    {k \in 1..Len(events) : events[k].name \in names /\ events[k].issue = i}

\* C17: events never run ahead of the committed store.  Every new_issue event
\* names a stored issue, and once per issue; for every issue there are at
\* most as many issue_closed events as closing notes, as many issue_updated
\* events as notes of Assign and status update, and as many note_added events
\* as other notes.  A request whose commit failed has stored nothing, so it
\* has emitted nothing.
C17_EmitAfterCommit ==
    /\ \A k \in 1..Len(events) :
          /\ events[k].issue \in DOMAIN issues
          /\ events[k].name = "new_issue"
                => \A l \in 1..Len(events) :
                      (events[l].name = "new_issue" /\ events[l].issue = events[k].issue)
                          => l = k
    /\ \A i \in DOMAIN issues :
          /\ Cardinality(EventsOf({"issue_closed"}, i))
                <= Cardinality({n \in NotesOf(i) :
                       notes[n].text \in {"Issue closed. Resolution: " \o res :
                                            res \in ResolutionInputs \ {NoText, ""}}})
          /\ Cardinality(EventsOf({"issue_updated"}, i))
                <= Cardinality({n \in NotesOf(i) :
                       notes[n].text \in {"Issue accepted and assigned"} \cup
                           {"Status changed to " \o st : st \in valid_statuses}})
          /\ Cardinality(EventsOf({"note_added"}, i))
                <= Cardinality({n \in NotesOf(i) : notes[n].text \notin AuditTexts})

\* One Create has committed and emitted, an overlapping Create has failed at
\* its commit, and the only event is the new_issue of the first.
C17_Witness ==
    /\ \E r \in DOMAIN requests : requests[r].pc = "done" /\ requests[r].code = 500
    /\ \E r \in DOMAIN requests : requests[r].pc = "done" /\ requests[r].code = 201
    /\ Len(events) = 1
    /\ events[1].name = "new_issue"

\* The Create-machine requests that have been answered.
MachineRequestsDone ==
    {r \in DOMAIN requests : requests[r].op = "create_machine" /\ requests[r].pc = "done"}

\* C14: overlapping Create-machine requests never collide: every answered
\* request has succeeded, none has committed an identifier that was stored
\* (which is answered 500).
C14_ConcurrentMachineNoCollision ==
    \A r \in MachineRequestsDone : requests[r].code = 201

\* C15: a machine identifier is never generated twice, whatever creations
\* and deletions come in between: the successful Create-machine requests
\* have pairwise distinct identifiers.
C15_MachineIdNeverReused ==
    \A r1, r2 \in MachineRequestsDone :
        (r1 # r2 /\ requests[r1].code = 201 /\ requests[r2].code = 201)
            => requests[r1].row.machine_id # requests[r2].row.machine_id

\* The event of each lifecycle operation.
EventOf(op) ==
    CASE op = "create_issue" -> "new_issue"
      [] op = "assign_issue" -> "issue_updated"
      [] op = "update_issue_status" -> "issue_updated"
      [] op = "close_issue" -> "issue_closed"
      [] op = "add_note" -> "note_added"
      [] OTHER -> NoText

\* C18: every step appends at most one event; a step appends an event exactly
\* when it is a successful lifecycle operation (it writes issues or notes),
\* and the event is then the one of that operation, about the issue the
\* operation acted on; a step of any other operation appends none.
C18_OneEventPerOperation ==
    [][/\ Len(events') \in {Len(events), Len(events) + 1}
       /\ SubSeq(events', 1, Len(events)) = events
       /\ (issues' # issues \/ notes' # notes) <=> Len(events') = Len(events) + 1
       /\ Len(events') = Len(events) + 1
             => /\ resp'.op \in {"create_issue", "assign_issue", "update_issue_status",
                                 "close_issue", "add_note"}
                /\ events'[Len(events')] =
                       [name |-> EventOf(resp'.op), issue |-> resp'.issue]
       /\ (users' # users \/ machines' # machines \/ now' # now)
             => events' = events]_vars

\* A Create, an Assign and a Close have succeeded on one issue, and the
\* events are theirs, in that order.
C18_Witness ==
    /\ Len(events) = 3
    /\ events[1].name = "new_issue"
    /\ events[2].name = "issue_updated"
    /\ events[3].name = "issue_closed"
    /\ resp.op = "close_issue"

\* The lifecycle events among the messages a client has received.
LifecycleEvents == {"new_issue", "issue_updated", "issue_closed", "note_added"}
IsLifecycleEvent(m) == m.name \in LifecycleEvents
LifecycleReceived(sid) == SelectSeq(clients[sid].received, IsLifecycleEvent)

AddedNote == CHOOSE n \in DOMAIN notes' \ DOMAIN notes : TRUE

\* C20: a step that adds a note to an issue emits exactly one note_added
\* event, about that issue, and delivers it once to every connected client;
\* and every issue detail answered lists all the notes of the issue stored
\* at that moment, the added ones included, each once, by ascending
\* created_at.
C20_NoteInDetailAndOneEvent ==
    [][/\ notes' # notes
             => /\ Cardinality(DOMAIN notes' \ DOMAIN notes) = 1
                /\ resp'.op = "add_note"
                /\ resp'.issue = notes'[AddedNote].issue_id
                /\ events' = Append(events, [name |-> "note_added",
                                             issue |-> notes'[AddedNote].issue_id])
                /\ DOMAIN clients' = DOMAIN clients
                /\ \A sid \in DOMAIN clients :
                      clients'[sid].received =
                          Append(clients[sid].received,
                                 [name |-> "note_added",
                                  issue |-> notes'[AddedNote].issue_id])
       /\ resp'.op = "get_issue"
             => /\ {resp'.items[k] : k \in 1..Len(resp'.items)} =
                       {n \in DOMAIN notes' : notes'[n].issue_id = resp'.issue}
                /\ \A a, b \in 1..Len(resp'.items) :
                      a < b => /\ resp'.items[a] # resp'.items[b]
                               /\ notes'[resp'.items[a]].created_at
                                      <= notes'[resp'.items[b]].created_at]_vars

\* Two notes were added to an issue at different times while a client was
\* connected: the client has received two note_added events about the issue
\* and the detail lists the two notes, the earlier first.
C20_Witness ==
    /\ resp.op = "get_issue"
    /\ Len(resp.items) = 2
    /\ notes[resp.items[1]].created_at < notes[resp.items[2]].created_at
    /\ \E sid \in DOMAIN clients :
          Cardinality({k \in 1..Len(clients[sid].received) :
                          clients[sid].received[k] =
                              [name |-> "note_added", issue |-> resp.issue]}) = 2

\* C26: every stored issue names a stored machine.
C26_IssueMachineExists ==
    \A i \in DOMAIN issues : MachineByMachineId(issues[i].machine_id) # NULL

\* C28: for every token and issue id, Add note with a text is served exactly
\* when the single-issue fetch of the same issue with the same token is
\* served, and an Add note that is not served cannot happen: it appends no
\* note and emits no event.
C28_AddNoteIffCanView ==
    \A t \in TokenInputs, iid \in IssueIdInputs, txt \in NoteInputs \ {NoText, ""} :
        /\ add_note_response(t, iid, txt) = 201 <=> get_issue_response(t, iid) = 200
        /\ add_note_response(t, iid, txt) # 201 => ~ ENABLED add_note(t, iid, txt)
        /\ get_issue_response(t, iid) = 200 <=> ENABLED get_issue(t, iid)

\* A production-service principal who did not report the issue has added a
\* note to it and can fetch it, while a token of no stored principal is
\* refused both.
C28_Witness ==
    /\ resp.op = "add_note"
    /\ users[resp.user].service = "production"
    /\ issues[resp.issue].reporter_id # resp.user
    /\ ENABLED get_issue(users[resp.user].user_id, issues[resp.issue].issue_id)
    /\ \E t \in TokenInputs :
          /\ get_issue_response(t, issues[resp.issue].issue_id) = 401
          /\ add_note_response(t, issues[resp.issue].issue_id, "checked") = 401

\* The note with the given text that a step adds to issue i for author cu,
\* and nothing else in the notes.
OneNoteAdded(text, i, cu) ==
    \E n \in DOMAIN notes' \ DOMAIN notes :
        /\ DOMAIN notes' = DOMAIN notes \cup {n}
        /\ \A m \in DOMAIN notes : notes'[m] = notes[m]
        /\ notes'[n] = [text |-> text, issue_id |-> i, author_id |-> cu,
                        created_at |-> now]

\* C29: an Assign is served only to a caller that passes the role gate on an
\* issue that is reported or assigned; it sets the status to assigned, the
\* assigned technician to the caller and accepted_at to the current time,
\* whoever the issue was assigned to before, changes nothing else in the
\* issues, and appends exactly one note, the audit note, authored by the
\* caller.
C29_AssignEffect ==
    [][(notes' # notes /\ resp'.op = "assign_issue")
          => /\ issues[resp'.issue].status \in {"reported", "assigned"}
             /\ role_required(AssignIssueRoles, resp'.user)
             /\ issues' = [issues EXCEPT ![resp'.issue].status = "assigned",
                                         ![resp'.issue].assigned_tech_id = resp'.user,
                                         ![resp'.issue].accepted_at = now]
             /\ OneNoteAdded("Issue accepted and assigned", resp'.issue, resp'.user)]_vars

\* An issue assigned to one technician has been assigned again, later, to
\* another: it holds the second technician and the time of the second Assign.
C29_Witness ==
    /\ resp.op = "assign_issue"
    /\ \E n, m \in NotesOf(resp.issue) :
          /\ notes[n].text = "Issue accepted and assigned"
          /\ notes[m].text = "Issue accepted and assigned"
          /\ notes[n].author_id # notes[m].author_id
          /\ notes[n].created_at < notes[m].created_at
          /\ issues[resp.issue].assigned_tech_id = notes[m].author_id
          /\ issues[resp.issue].accepted_at = notes[m].created_at
    /\ issues[resp.issue].status = "assigned"

\* C30: a served generic status update sets the status of its issue to the
\* requested one of the four and changes nothing else in the issues:
\* assigned technician, accepted_at, closed_at, resolution and
\* problem_description stay as they were; it appends exactly one note, the
\* audit note, authored by the caller.
C30_UpdateChangesStatusOnly ==
    [][(notes' # notes /\ resp'.op = "update_issue_status")
          => \E st \in valid_statuses :
                /\ issues' = [issues EXCEPT ![resp'.issue].status = st]
                /\ OneNoteAdded("Status changed to " \o st, resp'.issue, resp'.user)]_vars

\* An assigned issue has been set to closed by a generic status update: it
\* keeps its technician and its accepted_at, and has no closed_at.
C30_Witness ==
    /\ resp.op = "update_issue_status"
    /\ issues[resp.issue].status = "closed"
    /\ issues[resp.issue].closed_at = NULL
    /\ issues[resp.issue].assigned_tech_id # NULL
    /\ issues[resp.issue].accepted_at # NULL

\* Issue a sorts strictly before issue b: it is newer, or as old and of a
\* smaller urgency rank (high 1, medium 2, low 3, other 4).
SortsBefore(a, b) ==
    \/ issues[a].created_at > issues[b].created_at
    \/ /\ issues[a].created_at = issues[b].created_at
       /\ urgency_order(issues[a].urgency) < urgency_order(issues[b].urgency)

IsQuotient2(v, total, n) ==
    LET d == 100 * total - v * n
    IN 2 * (IF d < 0 THEN 0 - d ELSE d) <= n

\* The issues the dashboard average is taken over.
ClosedWithTime == {i \in DOMAIN issues :
                      issues[i].status = "closed" /\ issues[i].closed_at # NULL}

\* C23: the average resolution time the dashboard reports (in hours, to two
\* decimals) is the sum of closed_at - created_at over the issues with
\* status closed and closed_at set, divided by their number, and 0 when
\* there is none; issues with status closed and no closed_at, and issues
\* with a closed_at and another status, do not count.
C23_DashboardAverage ==
    resp.op = "analytics_dashboard"
        => /\ Len(resp.items) = 1
           /\ IF ClosedWithTime = {} THEN resp.items[1] = 0
              ELSE IsQuotient2(resp.items[1],
                               SumFn([i \in ClosedWithTime |->
                                         issues[i].closed_at - issues[i].created_at]),
                               Cardinality(ClosedWithTime))

\* Two issues closed after 2 hours and after 1 hour, and one set to closed
\* by a generic status update: the dashboard reports 1.5.
C23_Witness ==
    /\ resp.op = "analytics_dashboard"
    /\ resp.items = <<150>>
    /\ Cardinality(ClosedWithTime) = 2
    /\ \E i, j \in ClosedWithTime :
          /\ issues[i].closed_at - issues[i].created_at = 2
          /\ issues[j].closed_at - issues[j].created_at = 1
    /\ \E i \in DOMAIN issues :
          issues[i].status = "closed" /\ issues[i].closed_at = NULL

\* The issues the average of technician tech is taken over.
ClosedBy(tech) == {i \in ClosedWithTime : issues[i].assigned_tech_id = tech}

\* C24: the per-technician report lists every active maintenance-service
\* principal once, with an average resolution time (in hours, to two
\* decimals) that is the sum of closed_at - accepted_at over the issues
\* assigned to the principal with status closed and closed_at set, divided
\* by the number of those issues, all of which have an accepted_at, and 0
\* when there is none.
C24_TechnicianAverage ==
    resp.op = "analytics_by_technician"
        => /\ {resp.items[k].technician : k \in 1..Len(resp.items)} =
                  {u \in DOMAIN users :
                      users[u].service = "maintenance" /\ users[u].is_active}
           /\ \A k, l \in 1..Len(resp.items) :
                 resp.items[k].technician = resp.items[l].technician => k = l
           /\ \A k \in 1..Len(resp.items) :
                 LET tech == resp.items[k].technician
                     v == resp.items[k].avg_resolution_time_hours
                 IN /\ \A i \in ClosedBy(tech) : issues[i].accepted_at # NULL
                    /\ IF ClosedBy(tech) = {} THEN v = 0
                       ELSE IsQuotient2(v,
                                SumFn([i \in ClosedBy(tech) |->
                                          issues[i].closed_at - issues[i].accepted_at]),
                                Cardinality(ClosedBy(tech)))

\* A technician has closed three issues, accepted after they were created,
\* in 1, 1 and 2 hours from acceptance: the report gives the technician 1.33
\* and gives 0 to a maintenance principal with no closed issue.
C24_Witness ==
    /\ resp.op = "analytics_by_technician"
    /\ \E k, l \in 1..Len(resp.items) :
          /\ resp.items[k].avg_resolution_time_hours = 133
          /\ Cardinality(ClosedBy(resp.items[k].technician)) = 3
          /\ \E i \in ClosedBy(resp.items[k].technician) :
                issues[i].accepted_at > issues[i].created_at
          /\ ClosedBy(resp.items[l].technician) = {}
          /\ resp.items[l].avg_resolution_time_hours = 0

\* C21: notes are append-only: across every step, each note of the earlier
\* state is in the later state with the same text, author, issue and
\* timestamp; no operation edits or deletes a note.
C21_NotesAppendOnly ==
    [][\A n \in DOMAIN notes : n \in DOMAIN notes' /\ notes'[n] = notes[n]]_vars

\* The deletion of a principal who wrote a note has been attempted and
\* answered 500, and the note is still there.
C21_Witness ==
    \E r \in DOMAIN requests, n \in DOMAIN notes :
        /\ requests[r].op = "delete_user"
        /\ requests[r].code = 500
        /\ notes[n].author_id = requests[r].target

\* The tokens whose principal is not in the store or is not active.
RejectedTokens ==
    {t \in TokenInputs :
        IF \E u \in DOMAIN users : users[u].user_id = t
        THEN \E u \in DOMAIN users : users[u].user_id = t /\ ~ users[u].is_active
        ELSE TRUE}

\* C22: the active status is looked up at every use of a token: in every
\* state, a request that bears the token of a principal who has been
\* deactivated or deleted (and is not active in the store) is answered 401
\* by every protected route and can take no step, so it has no effect on
\* the store.
C22_InactiveTokenRejected ==
    \A t \in RejectedTokens :
        /\ \A name \in NameInputs :
              /\ create_machine_response(t, name) = 401
              /\ ~ ENABLED create_machine(t, name)
        /\ \A mid \in MachineIdInputs :
              /\ delete_machine_response(t, mid) = 401
              /\ ~ ENABLED delete_machine(t, mid)
              /\ \A d \in DescriptionInputs, u \in UrgencyInputs :
                    /\ create_issue_response(t, mid, d, u) = 401
                    /\ ~ ENABLED create_issue(t, mid, d, u)
        /\ \A iid \in IssueIdInputs :
              /\ assign_issue_response(t, iid) = 401
              /\ ~ ENABLED assign_issue(t, iid)
              /\ get_issue_response(t, iid) = 401
              /\ ~ ENABLED get_issue(t, iid)
              /\ \A st \in StatusInputs :
                    /\ update_issue_status_response(t, iid, st) = 401
                    /\ ~ ENABLED update_issue_status(t, iid, st)
              /\ \A res \in ResolutionInputs :
                    /\ close_issue_response(t, iid, res) = 401
                    /\ \A pd \in ProblemInputs : ~ ENABLED close_issue(t, iid, res, pd)
              /\ \A txt \in NoteInputs :
                    /\ add_note_response(t, iid, txt) = 401
                    /\ ~ ENABLED add_note(t, iid, txt)
        /\ get_issues_response(t) = 401
        /\ ~ ENABLED get_issues(t, NoArgs)
        /\ analytics_dashboard_response(t) = 401
        /\ ~ ENABLED analytics_dashboard(t)
        /\ analytics_by_technician_response(t) = 401
        /\ ~ ENABLED analytics_by_technician(t)
        /\ \A uid \in TokenInputs :
              /\ delete_user_response(t, uid) = 401
              /\ \A r \in 1..MaxRequests : ~ ENABLED delete_user_stage(r, t, uid)
              /\ \A data \in UserDataInputs :
                    /\ update_user_response(t, uid, data) = 401
                    /\ \A r \in 1..MaxRequests :
                          ~ ENABLED update_user_stage(r, t, uid, data)

\* A principal who reported an issue has been deactivated, and another
\* principal has just been deleted.
C22_Witness ==
    /\ resp.op = "delete_user"
    /\ \E t \in {"PROD001", "MNT001"} : UserByUserId(t) = NULL
    /\ \E u \in DOMAIN users, i \in DOMAIN issues :
          /\ ~ users[u].is_active
          /\ issues[i].reporter_id = u

\* The HTTP statuses of an error.
ErrorCodes == {400, 401, 403, 404, 409, 500}

\* C25: no partial commit survives an error: no step of a request on users
\* that is answered with an error status changes the committed store
\* (users, machines, issues, notes): not the step that starts a request,
\* not the step at which a request gets its error status, and not a later
\* step of a request that has one, the end of the request included; so an
\* update-user request that fails validation after it assigned earlier
\* fields in memory commits none of them.
C25_NoPartialCommit ==
    [][(\/ \E r \in DOMAIN requests' : r \notin DOMAIN requests
        \/ \E r \in DOMAIN requests' :
              /\ requests'[r].code \in ErrorCodes
              /\ r \in DOMAIN requests => requests[r].code \notin ErrorCodes
        \/ \E r \in DOMAIN requests :
              /\ requests[r].code \in ErrorCodes
              /\ r \in DOMAIN requests' => requests'[r] # requests[r])
       => store' = store]_vars

\* An update-user request has been answered 400 at its role after it
\* assigned a new service on the user in memory.
C25_Witness ==
    \E r \in DOMAIN requests :
        /\ requests[r].op = "update_user"
        /\ requests[r].code = 400
        /\ "service" \in DOMAIN requests[r].changes
        /\ users[requests[r].target].service # requests[r].changes.service

\* C31: in every reachable state, an issue that has accepted_at was accepted
\* no earlier than it was created, and an issue that has both accepted_at
\* and closed_at was accepted no later than it was closed, so that no
\* resolution time of a technician is negative.
C31_AcceptedBeforeClosed ==
    \A i \in DOMAIN issues :
        /\ issues[i].accepted_at # NULL => issues[i].created_at <= issues[i].accepted_at
        /\ issues[i].accepted_at # NULL /\ issues[i].closed_at # NULL
              => issues[i].accepted_at <= issues[i].closed_at

\* C32: in every reachable state, an issue has an assigned technician if
\* and only if it has accepted_at, and an issue that has closed_at has a
\* resolution that is not empty.
C32_TechnicianIffAccepted ==
    \A i \in DOMAIN issues :
        /\ (issues[i].assigned_tech_id # NULL) <=> (issues[i].accepted_at # NULL)
        /\ issues[i].closed_at # NULL => issues[i].resolution \notin {NoText, ""}

\* An issue has been assigned and closed, and the deletion of its
\* technician has been attempted and answered 500.
C32_Witness ==
    \E i \in DOMAIN issues, r \in DOMAIN requests :
        /\ issues[i].assigned_tech_id # NULL
        /\ issues[i].closed_at # NULL
        /\ requests[r].op = "delete_user"
        /\ requests[r].code = 500
        /\ requests[r].target = issues[i].assigned_tech_id

\* The Close requests on issue i that have been answered 200.
ClosesDone(i) ==
    {r \in DOMAIN requests :
        /\ requests[r].op = "close_issue"
        /\ requests[r].issue = i
        /\ requests[r].code = 200}

\* C33: under any interleaving of Close requests on the same issue with no
\* generic status update among the requests, at most one Close succeeds:
\* the issue has at most one closing note, at most one issue_closed event
\* is emitted for it, and at most one Close on it is answered 200.
C33_AtMostOneCloseSucceeds ==
    (\A r \in DOMAIN requests : requests[r].op # "update_issue_status")
        => \A i \in DOMAIN issues :
              /\ Cardinality({n \in DOMAIN notes :
                                 /\ notes[n].issue_id = i
                                 /\ \E res \in ResolutionInputs :
                                       notes[n].text = "Issue closed. Resolution: " \o res})
                    <= 1
              /\ Cardinality({k \in 1..Len(events) :
                                 events[k] = [name |-> "issue_closed", issue |-> i]}) <= 1
              /\ Cardinality(ClosesDone(i)) <= 1

\* The events of the mutations of issue i in the order in which they were
\* committed: each mutation commits its audit note with it, and the notes
\* are numbered in the order of their commits.
CommittedEvents(i) ==
    LET IsAudit(n) == n.issue_id = i /\ n.text \in AuditTexts
        audit == SelectSeq(notes, IsAudit)
    IN [k \in 1..Len(audit) |->
           IF audit[k].text = "Issue accepted and assigned"
              \/ audit[k].text \in {"Status changed to " \o st : st \in valid_statuses}
           THEN "issue_updated" ELSE "issue_closed"]

\* The names of the events about a mutation of issue i that client sid has
\* received, in the order of their delivery.
MutationsReceived(sid, i) ==
    LET IsMutation(m) == m.issue = i /\ m.name \in {"issue_updated", "issue_closed"}
        received == SelectSeq(clients[sid].received, IsMutation)
    IN [k \in 1..Len(received) |-> received[k].name]

\* a can be obtained from b by leaving elements out.
RECURSIVE IsSubSeq(_, _)
IsSubSeq(a, b) ==
    IF a = << >> THEN TRUE
    ELSE IF b = << >> THEN FALSE
    ELSE IF Head(a) = Head(b) THEN IsSubSeq(Tail(a), Tail(b))
    ELSE IsSubSeq(a, Tail(b))

\* C34: every connected client receives the events about the mutations of
\* an issue in the order in which the mutations were committed, whatever the
\* interleaving of the requests; and once no request is in flight, the last
\* such event a client has received is the one of the mutation committed
\* last.
C34_EventsInCommitOrder ==
    \A sid \in DOMAIN clients, i \in DOMAIN issues :
        /\ IsSubSeq(MutationsReceived(sid, i), CommittedEvents(i))
        /\ ((\A r \in DOMAIN requests : requests[r].pc = "done")
             /\ MutationsReceived(sid, i) # << >>)
              => MutationsReceived(sid, i)[Len(MutationsReceived(sid, i))]
                     = CommittedEvents(i)[Len(CommittedEvents(i))]

\* The tokens issued so far.
IssuedTokens == {requests[r].token : r \in {q \in DOMAIN requests : requests[q].op = "login"}}

\* The role or the service principal u has in the store is among roles.
StoredRoleIn(roles, u) == users[u].role \in roles \/ users[u].service \in roles

\* C35: the gates decide on the role and the service the principal has in
\* the store, not on the role in the token: in every state, for every token
\* issued to a principal who is still active, whatever role the token
\* carries, a route with a role gate answers 403 exactly when neither the
\* stored role nor the stored service of the principal is allowed, and a
\* request refused that way can take no step.
C35_GateUsesStoredRole ==
    \A tk \in IssuedTokens :
        LET t == tk.user_id
            u == UserByUserId(t)
        IN (u # NULL /\ users[u].is_active)
            => /\ \A uid \in TokenInputs :
                     /\ delete_user_response(t, uid) = 403
                            <=> ~ StoredRoleIn(DeleteUserRoles, u)
                     /\ \A data \in RoleDataInputs :
                           /\ update_user_response(t, uid, data) = 403
                                  <=> ~ StoredRoleIn(UpdateUserRoles, u)
                           /\ ~ StoredRoleIn(UpdateUserRoles, u)
                                  => \A r \in 1..MaxRequests :
                                        ~ ENABLED update_user_stage(r, t, uid, data)
               /\ \A name \in NameInputs :
                     create_machine_response(t, name) = 403
                         <=> ~ StoredRoleIn(CreateMachineRoles, u)
               /\ \A mid \in MachineIdInputs :
                     /\ delete_machine_response(t, mid) = 403
                            <=> ~ StoredRoleIn(DeleteMachineRoles, u)
                     /\ \A d \in DescriptionInputs, urg \in UrgencyInputs :
                           /\ create_issue_response(t, mid, d, urg) = 403
                                  <=> ~ StoredRoleIn(CreateIssueRoles, u)
                           /\ ~ StoredRoleIn(CreateIssueRoles, u)
                                  => ~ ENABLED create_issue(t, mid, d, urg)
               /\ analytics_by_technician_response(t) = 403
                      <=> ~ StoredRoleIn(AnalyticsByTechnicianRoles, u)

\* A principal holds a token that says manager, issued when its service was
\* production; it has been made a technician and moved to maintenance
\* since, and is refused by the gate of the routes for managers and by the
\* gate of Create.
C35_Witness ==
    \E tk \in IssuedTokens :
        /\ tk.role = "manager"
        /\ tk.user_id = "PROD001"
        /\ UserByUserId("PROD001") # NULL
        /\ users[UserByUserId("PROD001")].role = "technician"
        /\ users[UserByUserId("PROD001")].service = "maintenance"
        /\ delete_user_response("PROD001", "ADMIN001") = 403
        /\ create_issue_response("PROD001", MachineIdFmt(1), "noise", "high") = 403
        /\ resp.op = "update_user"

\* The body of a register or update-user request names a service or a role
\* that is not a valid one.
InvalidServiceOrRole(data) ==
    \/ "service" \in DOMAIN data /\ data.service \notin valid_services
    \/ "role" \in DOMAIN data /\ data.role \notin valid_roles

\* C36: in every reachable state every principal has a valid service and a
\* valid role.  A register request with another service or role is refused
\* and cannot take a step: with 400 when its user_id is free (409 when it is
\* taken).  An update-user request with another service or role is refused:
\* with 400 when the caller passes the gates and the user exists; the
\* request then holds status 400, is past its commit and cannot commit.
C36_ValidServiceAndRole ==
    /\ \A u \in DOMAIN users :
          users[u].service \in valid_services /\ users[u].role \in valid_roles
    /\ \A d \in {x \in RegisterInputs \cup SupervisorInputs : InvalidServiceOrRole(x)} :
          /\ register_response(d.matricule_number, d.service, d.role) \in {400, 409}
          /\ UserByUserId(d.matricule_number) = NULL
                => register_response(d.matricule_number, d.service, d.role) = 400
          /\ ~ ENABLED register(d.matricule_number, d.service, d.role)
    /\ \A t \in TokenInputs, uid \in TokenInputs,
          data \in {x \in UserDataInputs : InvalidServiceOrRole(x)} :
          /\ update_user_response(t, uid, data) \in {400, 401, 403, 404}
          /\ (/\ token_required(t)
              /\ role_required(UpdateUserRoles, UserByUserId(t))
              /\ UserByUserId(uid) # NULL)
                => update_user_response(t, uid, data) = 400
    /\ \A r \in DOMAIN requests :
          /\ (requests[r].op = "update_user" /\ requests[r].code = 400)
                => requests[r].pc = "teardown" /\ ~ ENABLED update_user_commit(r)
          /\ (requests[r].op = "update_user" /\ requests[r].pc = "commit")
                => /\ "service" \in DOMAIN requests[r].changes
                         => requests[r].changes.service \in valid_services
                   /\ "role" \in DOMAIN requests[r].changes
                         => requests[r].changes.role \in valid_roles

\* Two principals have registered, and an update-user request that names
\* the service quality has been answered 400 with nothing assigned.
C36_Witness ==
    /\ Cardinality(DOMAIN users) = 3
    /\ \E r \in DOMAIN requests :
          /\ requests[r].op = "update_user"
          /\ requests[r].code = 400
          /\ requests[r].changes = << >>

====
